---- MODULE Spec2Model ----
(***************************************************************************)
(* Batch dispatch pipeline of mm-invite: the main() loops of               *)
(* scripts/send_whatsapp_docs.py, scripts/send_whatsapp_docs_v3.py and     *)
(* scripts/send_whatsapp_invites.py.  One run of main() is one behaviour:  *)
(* the configuration is fixed in Init, the source list is read by          *)
(* ReadInvitees, and every remote call (document generation, provider      *)
(* send) is a step whose response is chosen by the environment.            *)
(***************************************************************************)
EXTENDS Integers, Sequences, FiniteSets, TLC

VARIABLES
    script,          \* which dispatch script runs: "docs", "v3" or "invites"
    dry_run,         \* args.dry_run
    resume_from,     \* args.resume_from (None when --resume-from is absent)
    api_key,         \* os.environ WHATSAPP_API_KEY, stripped
    pdf_api_url,     \* resolved generation endpoint ("" when empty)
    static_file_url, \* v3 only: args.file_url, stripped
    invitees,        \* list returned by read_invitees
    summary,         \* the summary dict of main
    resume_ready,    \* the resume-ready flag of main
    cur,             \* 1-based position of the invitee the for loop is at
    pc,              \* position of main
    exit_code,       \* <<>> while running, <<c>> once the process has ended
    printed,         \* TRUE once the final summary block was printed
    events,          \* log of what happened, in order: [ev, i]
    diagnostics,     \* stderr lines about skipped and failed recipients
    unit_pc,         \* unit runs of the pure functions: stage ("off" in main)
    unit_in,         \* unit runs: the function under evaluation and its input
    unit_out         \* unit runs: what the function returned or raised

vars == <<script, dry_run, resume_from, api_key, pdf_api_url, static_file_url,
          invitees, summary, resume_ready, cur, pc, exit_code, printed, events,
          diagnostics, unit_pc, unit_in, unit_out>>

unit == <<unit_pc, unit_in, unit_out>>

config == <<script, dry_run, resume_from, api_key, pdf_api_url, static_file_url>>

----------------------------------------------------------------------------
(* Bounds and input domains *)

MaxRows == 3

None == "None"

Scripts == {"docs", "v3", "invites"}

Names == {"", "Asha"}

Phones == {"", "9001", "9002"}

Anchors == {None, "", "9001"}

Rows == [display_name : Names, phone : Phones]

RowLists == UNION {[1..n -> Rows] : n \in 0..MaxRows}

\* What the document-generation endpoint can answer to one request.
GenResponses == {"ok", "unreachable", "http_error", "non_json",
                 "bad_status", "missing_field"}

\* What the provider send endpoint can answer to one request.
SendResponses == {"json_ok", "json_result_false", "json_null", "non_json",
                  "http_error", "unreachable"}

----------------------------------------------------------------------------
(* Pure helpers *)

\* Invitee(line_no=index, phone=..., country_code=..., display_name=...)
Invitee(index, row) ==
    [line_no |-> index, phone |-> row.phone, country_code |-> "91",
     display_name |-> row.display_name]

\* enumerate(reader, start=2): one Invitee per data row, in source order
read_invitees(rows) == [i \in 1..Len(rows) |-> Invitee(i + 1, rows[i])]

\* generate_pdf_via_api: TRUE when the call raises instead of returning
generate_pdf_raises(r) == r # "ok"

\* InteraktClient.send_*: TRUE when the HTTP call itself raises
send_call_raises(r) == r \in {"http_error", "unreachable"}

\* the try block around the send in main: TRUE when anything in it raises.
\* send_whatsapp_invites.py inspects the decoded result with
\* '"result" in result', which raises TypeError on a JSON null.
send_block_raises(s, r) ==
    send_call_raises(r) \/ (s = "invites" /\ r = "json_null")

\* resume_ready initialised to True whatever --resume-from says
resume_ready_init_always(anchor) == TRUE

\* resume_ready = resume_from is None
resume_ready_init(anchor) == anchor = None

\* exit code that also treats skipped recipients as a failure
final_exit_code_strict(s) == IF s.failed = 0 /\ s.skipped = 0 THEN 0 ELSE 1

\* return 0 if summary["failed"] == 0 else 1
final_exit_code(s) == IF s.failed = 0 THEN 0 ELSE 1

Bump(s, field) == [s EXCEPT ![field] = @ + 1]

Ev(kind, i) == [ev |-> kind, i |-> i]

----------------------------------------------------------------------------
(* Initial state: main() has parsed its arguments and loaded the env file *)

Init ==
    /\ script \in Scripts
    /\ dry_run \in BOOLEAN
    /\ resume_from \in Anchors
    /\ api_key \in {"", "KEY"}
    /\ pdf_api_url \in {"", "http://pdf"}
    /\ static_file_url \in (IF script = "v3" THEN {"", "http://static/a.pdf"} ELSE {""})
    /\ invitees = <<>>
    /\ summary = [total |-> 0, processed |-> 0, sent |-> 0, skipped |-> 0, failed |-> 0]
    /\ resume_ready = resume_ready_init(resume_from)
    /\ cur = 0
    /\ pc = "start"
    /\ exit_code = <<>>
    /\ printed = FALSE
    /\ events = <<>>
    /\ diagnostics = <<>>
    /\ unit_pc = "off"
    /\ unit_in = [fn |-> "main"]
    /\ unit_out = [fn |-> "main"]

----------------------------------------------------------------------------
(* Start-up of main *)

\* read_invitees raises CsvError: file missing/unreadable or no header row
ReadInviteesFails ==
    /\ pc = "start"
    /\ \E why \in {"not_found", "os_error", "no_header"} :
          /\ pc' = "ret_csv_error"
          /\ exit_code' = <<1>>
    /\ UNCHANGED <<diagnostics, unit, config, invitees, summary, resume_ready, cur, printed, events>>

\* read_invitees raises something that is neither FileNotFoundError nor
\* OSError (UnicodeDecodeError, csv.Error): nothing catches it, the
\* interpreter exits with status 1
ReadInviteesCrashes ==
    /\ pc = "start"
    /\ \E why \in {"decode_error", "csv_error"} :
          /\ pc' = "crashed_reading"
          /\ exit_code' = <<1>>
    /\ UNCHANGED <<diagnostics, unit, config, invitees, summary, resume_ready, cur, printed, events>>

\* read_invitees returns the list of records
ReadInvitees ==
    /\ pc = "start"
    /\ \E rows \in RowLists : invitees' = read_invitees(rows)
    /\ pc' = "loaded"
    /\ UNCHANGED <<diagnostics, unit, config, summary, resume_ready, cur, exit_code, printed, events>>

\* if not invitees: print("No rows found"); return 0
NoRows ==
    /\ pc = "loaded"
    /\ invitees = <<>>
    /\ pc' = "ret_no_rows"
    /\ exit_code' = <<0>>
    /\ UNCHANGED <<diagnostics, unit, config, invitees, summary, resume_ready, cur, printed, events>>

\* the generation endpoint check: v3 accepts a static file URL instead
pdf_source_missing ==
    IF script = "v3" THEN static_file_url = "" /\ pdf_api_url = ""
                     ELSE pdf_api_url = ""

\* the endpoint check reporting the error but returning 0
NoPdfApiUrl_ReturnsZero ==
    /\ pc = "loaded"
    /\ invitees # <<>>
    /\ pdf_source_missing
    /\ pc' = "ret_no_pdf_api_url"
    /\ exit_code' = <<0>>
    /\ UNCHANGED <<diagnostics, unit, config, invitees, summary, resume_ready, cur, printed, events>>

\* if not pdf_api_url: return 1
NoPdfApiUrl ==
    /\ pc = "loaded"
    /\ invitees # <<>>
    /\ pdf_source_missing
    /\ pc' = "ret_no_pdf_api_url"
    /\ exit_code' = <<1>>
    /\ UNCHANGED <<diagnostics, unit, config, invitees, summary, resume_ready, cur, printed, events>>

\* the credential check made inside the for loop, after processed += 1
NoApiKey_InsideLoop ==
    /\ pc = "loaded"
    /\ invitees # <<>>
    /\ ~pdf_source_missing
    /\ ~dry_run /\ api_key = ""
    /\ summary' = Bump([summary EXCEPT !.total = Len(invitees)], "processed")
    /\ cur' = 1
    /\ events' = Append(events, Ev("visit", 1))
    /\ pc' = "ret_no_api_key"
    /\ exit_code' = <<1>>
    /\ UNCHANGED <<diagnostics, unit, config, invitees, resume_ready, printed>>

\* if not dry_run and not api_key: return 1
NoApiKey ==
    /\ pc = "loaded"
    /\ invitees # <<>>
    /\ ~pdf_source_missing
    /\ ~dry_run /\ api_key = ""
    /\ pc' = "ret_no_api_key"
    /\ exit_code' = <<1>>
    /\ UNCHANGED <<diagnostics, unit, config, invitees, summary, resume_ready, cur, printed, events>>

\* summary = {...}; resume_ready = resume_from is None; enter the for loop
StartLoop ==
    /\ pc = "loaded"
    /\ invitees # <<>>
    /\ ~pdf_source_missing
    /\ dry_run \/ api_key # ""
    /\ summary' = [total |-> Len(invitees), processed |-> 0, sent |-> 0,
                   skipped |-> 0, failed |-> 0]
    /\ resume_ready' = resume_ready_init(resume_from)
    /\ pc' = "loop"
    /\ UNCHANGED <<diagnostics, unit, config, invitees, cur, exit_code, printed, events>>

----------------------------------------------------------------------------
(* The for loop of main: one recipient at a time *)

\* the invitee the next iteration of the for loop takes
NextInvitee == invitees[cur + 1]

\* the name gate left out
missing_name_never(inv) == FALSE

\* if not invitee.display_name
missing_name(inv) == inv.display_name = ""

\* the phone gate left out
missing_phone_never(inv) == FALSE

\* if not invitee.phone
missing_phone(inv) == inv.phone = ""

\* a resume gate that also skips the anchor recipient and never opens
before_anchor_never_opens(ready, inv, anchor) == ~ready

\* if not resume_ready: if invitee.phone == resume_from: ... else: skip
before_anchor(ready, inv, anchor) == ~ready /\ inv.phone # anchor

\* a line written to stderr about the recipient at position i
Diag(kind, i) == [kind |-> kind, about |-> i]

\* summary["processed"] += 1; missing name: summary["skipped"] += 1; continue
SkipMissingName ==
    /\ pc = "loop" /\ cur < Len(invitees)
    /\ missing_name(NextInvitee)
    /\ cur' = cur + 1
    /\ summary' = Bump(Bump(summary, "processed"), "skipped")
    /\ events' = events \o <<Ev("visit", cur + 1), Ev("no_name", cur + 1),
                              Ev("skipped", cur + 1)>>
    /\ diagnostics' = Append(diagnostics, Diag("missing_name", cur + 1))
    /\ UNCHANGED <<unit, config, invitees, resume_ready, pc, exit_code, printed>>

\* summary["processed"] += 1; missing phone: summary["skipped"] += 1; continue
SkipMissingPhone ==
    /\ pc = "loop" /\ cur < Len(invitees)
    /\ ~missing_name(NextInvitee)
    /\ missing_phone(NextInvitee)
    /\ cur' = cur + 1
    /\ summary' = Bump(Bump(summary, "processed"), "skipped")
    /\ events' = events \o <<Ev("visit", cur + 1), Ev("no_phone", cur + 1),
                              Ev("skipped", cur + 1)>>
    /\ diagnostics' = Append(diagnostics, Diag("missing_phone", cur + 1))
    /\ UNCHANGED <<unit, config, invitees, resume_ready, pc, exit_code, printed>>

\* a resume skip that writes a line about the recipient it passes over
ResumeSkip_Writes ==
    /\ pc = "loop" /\ cur < Len(invitees)
    /\ ~missing_name(NextInvitee)
    /\ ~missing_phone(NextInvitee)
    /\ before_anchor(resume_ready, NextInvitee, resume_from)
    /\ cur' = cur + 1
    /\ summary' = Bump(Bump(summary, "processed"), "skipped")
    /\ events' = events \o <<Ev("visit", cur + 1), Ev("before_anchor", cur + 1),
                              Ev("skipped", cur + 1)>>
    /\ diagnostics' = Append(diagnostics, Diag("before_anchor", cur + 1))
    /\ UNCHANGED <<unit, config, invitees, resume_ready, pc, exit_code, printed>>

\* summary["processed"] += 1; not resume_ready and phone differs from the
\* anchor: summary["skipped"] += 1; continue
ResumeSkip ==
    /\ pc = "loop" /\ cur < Len(invitees)
    /\ ~missing_name(NextInvitee)
    /\ ~missing_phone(NextInvitee)
    /\ before_anchor(resume_ready, NextInvitee, resume_from)
    /\ cur' = cur + 1
    /\ summary' = Bump(Bump(summary, "processed"), "skipped")
    /\ events' = events \o <<Ev("visit", cur + 1), Ev("before_anchor", cur + 1),
                              Ev("skipped", cur + 1)>>
    /\ UNCHANGED <<diagnostics, unit, config, invitees, resume_ready, pc, exit_code, printed>>

\* gates passed and the send reached without resolving the document
PassGates_SkipsResolve ==
    /\ pc = "loop" /\ cur < Len(invitees)
    /\ ~missing_name(NextInvitee)
    /\ ~missing_phone(NextInvitee)
    /\ ~before_anchor(resume_ready, NextInvitee, resume_from)
    /\ cur' = cur + 1
    /\ resume_ready' = TRUE
    /\ summary' = Bump(summary, "processed")
    /\ events' = events \o <<Ev("visit", cur + 1), Ev("pass", cur + 1)>>
    /\ pc' = "send"
    /\ UNCHANGED <<diagnostics, unit, config, invitees, exit_code, printed>>

\* summary["processed"] += 1; all gates passed (resume_ready becomes True when
\* the phone equals the anchor); go on to resolve the document
PassGates ==
    /\ pc = "loop" /\ cur < Len(invitees)
    /\ ~missing_name(NextInvitee)
    /\ ~missing_phone(NextInvitee)
    /\ ~before_anchor(resume_ready, NextInvitee, resume_from)
    /\ cur' = cur + 1
    /\ resume_ready' = TRUE
    /\ summary' = Bump(summary, "processed")
    /\ events' = events \o <<Ev("visit", cur + 1), Ev("pass", cur + 1)>>
    /\ pc' = "resolve"
    /\ UNCHANGED <<diagnostics, unit, config, invitees, exit_code, printed>>

\* the static file URL ignored: the document is always generated
uses_static_file_never == FALSE

\* v3: if static_file_url: media_url = static_file_url (no generation call)
uses_static_file == script = "v3" /\ static_file_url # ""

UseStaticFile ==
    /\ pc = "resolve"
    /\ uses_static_file
    /\ events' = Append(events, Ev("static", cur))
    /\ pc' = "send"
    /\ UNCHANGED <<diagnostics, unit, config, invitees, summary, resume_ready, cur, exit_code, printed>>

\* a generation call repeated after it succeeded
GeneratePdf_Twice ==
    /\ pc = "resolve"
    /\ ~uses_static_file
    /\ \E r \in GenResponses :
          /\ ~generate_pdf_raises(r)
          /\ events' = events \o <<Ev("gen_ok", cur), Ev("gen_ok", cur)>>
    /\ pc' = "send"
    /\ UNCHANGED <<diagnostics, unit, config, invitees, summary, resume_ready, cur, exit_code, printed>>

\* generate_pdf_via_api returns {"url", "path"}
GeneratePdf ==
    /\ pc = "resolve"
    /\ ~uses_static_file
    /\ \E r \in GenResponses :
          /\ ~generate_pdf_raises(r)
          /\ events' = Append(events, Ev("gen_ok", cur))
    /\ pc' = "send"
    /\ UNCHANGED <<diagnostics, unit, config, invitees, summary, resume_ready, cur, exit_code, printed>>

\* GeneratePdfFails without its 'continue': the failure is counted and the
\* iteration falls through to the send
GeneratePdfFails_NoContinue ==
    /\ pc = "resolve"
    /\ ~uses_static_file
    /\ \E r \in GenResponses :
          /\ generate_pdf_raises(r)
          /\ events' = events \o <<Ev("gen_raise", cur), Ev("failed", cur)>>
    /\ summary' = Bump(summary, "failed")
    /\ pc' = "send"
    /\ diagnostics' = Append(diagnostics, Diag("generate_failed", cur))
    /\ UNCHANGED <<unit, config, invitees, resume_ready, cur, exit_code, printed>>

\* generate_pdf_via_api raises: summary["failed"] += 1; continue
GeneratePdfFails ==
    /\ pc = "resolve"
    /\ ~uses_static_file
    /\ \E r \in GenResponses :
          /\ generate_pdf_raises(r)
          /\ events' = events \o <<Ev("gen_raise", cur), Ev("failed", cur)>>
    /\ summary' = Bump(summary, "failed")
    /\ pc' = "loop"
    /\ diagnostics' = Append(diagnostics, Diag("generate_failed", cur))
    /\ UNCHANGED <<unit, config, invitees, resume_ready, cur, exit_code, printed>>

\* a dry run that describes the send and makes the provider call as well
DryRunSend_CallsProvider ==
    /\ pc = "send"
    /\ dry_run
    /\ events' = events \o <<Ev("dry_run", cur), Ev("send_ret", cur), Ev("sent", cur)>>
    /\ summary' = Bump(summary, "sent")
    /\ pc' = "loop"
    /\ UNCHANGED <<diagnostics, unit, config, invitees, resume_ready, cur, exit_code, printed>>

\* if dry_run: print("[dry-run] Would send ..."); summary["sent"] += 1; continue
DryRunSend ==
    /\ pc = "send"
    /\ dry_run
    /\ events' = events \o <<Ev("dry_run", cur), Ev("sent", cur)>>
    /\ summary' = Bump(summary, "sent")
    /\ pc' = "loop"
    /\ UNCHANGED <<diagnostics, unit, config, invitees, resume_ready, cur, exit_code, printed>>

\* invites: if "result" in result and not result.get("result"): the decoded
\* response is written to stderr
reports_api_failure(s, r) == s = "invites" /\ r = "json_result_false"

\* a send whose response reports a failure counted failed
Send_ChecksResult ==
    /\ pc = "send"
    /\ ~dry_run
    /\ \E r \in SendResponses :
          /\ ~send_block_raises(script, r)
          /\ events' = events \o <<Ev("send_ret", cur),
                IF reports_api_failure(script, r) THEN Ev("failed", cur)
                                                  ELSE Ev("sent", cur)>>
          /\ diagnostics' = IF reports_api_failure(script, r)
                            THEN Append(diagnostics, Diag("api_response", cur))
                            ELSE diagnostics
          /\ summary' = Bump(summary, IF reports_api_failure(script, r)
                                      THEN "failed" ELSE "sent")
    /\ pc' = "loop"
    /\ UNCHANGED <<unit, config, invitees, resume_ready, cur, exit_code, printed>>

\* the send call returns and nothing else in the try block raises:
\* summary["sent"] += 1
Send ==
    /\ pc = "send"
    /\ ~dry_run
    /\ \E r \in SendResponses :
          /\ ~send_block_raises(script, r)
          /\ events' = events \o <<Ev("send_ret", cur), Ev("sent", cur)>>
          /\ diagnostics' = IF reports_api_failure(script, r)
                            THEN Append(diagnostics, Diag("api_response", cur))
                            ELSE diagnostics
    /\ summary' = Bump(summary, "sent")
    /\ pc' = "loop"
    /\ UNCHANGED <<unit, config, invitees, resume_ready, cur, exit_code, printed>>

\* the except handler of the send block in send_whatsapp_docs.py formats its
\* message with pdf_path.name; no name pdf_path is bound in main or at module
\* level, so the handler itself raises NameError
send_handler_raises(s) == s = "docs"

\* what the send call itself did, for the log
send_event(r) == IF send_call_raises(r) THEN "send_raise" ELSE "send_ret"

\* what a failing send block did, for the log: the call raised, or the call
\* returned and the inspection of its result raised
send_failure_log(r, i) ==
    IF send_call_raises(r) THEN <<Ev("send_raise", i)>>
                           ELSE <<Ev("send_ret", i), Ev("result_raise", i)>>

\* a failed send tried again for the same recipient instead of being counted
SendFails_Retries ==
    /\ pc = "send"
    /\ ~dry_run
    /\ ~send_handler_raises(script)
    /\ \E r \in SendResponses :
          /\ send_block_raises(script, r)
          /\ events' = events \o send_failure_log(r, cur)
    /\ UNCHANGED <<diagnostics, unit, config, invitees, summary, resume_ready, cur, pc, exit_code, printed>>

\* the try block raises and the handler counts it: summary["failed"] += 1
SendFails ==
    /\ pc = "send"
    /\ ~dry_run
    /\ ~send_handler_raises(script)
    /\ \E r \in SendResponses :
          /\ send_block_raises(script, r)
          /\ events' = events \o send_failure_log(r, cur) \o <<Ev("failed", cur)>>
    /\ summary' = Bump(summary, "failed")
    /\ pc' = "loop"
    /\ diagnostics' = Append(diagnostics, Diag("send_failed", cur))
    /\ UNCHANGED <<unit, config, invitees, resume_ready, cur, exit_code, printed>>

\* the try block raises and the handler raises NameError: main is left by an
\* uncaught exception, the interpreter exits with status 1
SendFailsHandlerRaises ==
    /\ pc = "send"
    /\ ~dry_run
    /\ send_handler_raises(script)
    /\ \E r \in SendResponses :
          /\ send_block_raises(script, r)
          /\ events' = Append(events, Ev(send_event(r), cur))
    /\ pc' = "crashed"
    /\ exit_code' = <<1>>
    /\ UNCHANGED <<diagnostics, unit, config, invitees, summary, resume_ready, cur, printed>>

\* after the last invitee: print the summary block, return 0 or 1
EndLoop ==
    /\ pc = "loop" /\ cur = Len(invitees)
    /\ printed' = TRUE
    /\ exit_code' = <<final_exit_code(summary)>>
    /\ pc' = "ret_summary"
    /\ UNCHANGED <<diagnostics, unit, config, invitees, summary, resume_ready, cur, events>>

----------------------------------------------------------------------------

Next ==
    \/ ReadInviteesFails
    \/ ReadInviteesCrashes
    \/ ReadInvitees
    \/ NoRows
    \/ NoPdfApiUrl
    \/ NoApiKey
    \/ StartLoop
    \/ SkipMissingName
    \/ SkipMissingPhone
    \/ ResumeSkip
    \/ PassGates
    \/ UseStaticFile
    \/ GeneratePdf
    \/ GeneratePdfFails
    \/ DryRunSend
    \/ Send
    \/ SendFails
    \/ SendFailsHandlerRaises
    \/ EndLoop

Spec == Init /\ [][Next]_vars

----------------------------------------------------------------------------
(* Reading the log *)

Has(kind, i) == \E k \in 1..Len(events) : events[k] = Ev(kind, i)

Count(kind, i) == Cardinality({k \in 1..Len(events) : events[k] = Ev(kind, i)})

Pos(kind, i) == CHOOSE k \in 1..Len(events) : events[k] = Ev(kind, i)

Finished == pc \in {"ret_csv_error", "crashed_reading", "ret_no_rows", "ret_no_pdf_api_url",
                    "ret_no_api_key", "ret_summary", "crashed"}

TypeOK ==
    /\ script \in Scripts
    /\ dry_run \in BOOLEAN
    /\ resume_ready \in BOOLEAN
    /\ cur \in 0..Len(invitees)
    /\ Len(invitees) <= MaxRows
    /\ exit_code \in {<<>>, <<0>>, <<1>>}
    /\ Finished <=> exit_code # <<>>


Positions == 1..Len(invitees)

Visited(i) == Has("visit", i)

GenAttempted(i) == Has("gen_ok", i) \/ Has("gen_raise", i)

SendAttempted(i) == Has("send_ret", i) \/ Has("send_raise", i)

\* the run went through the for loop and the process has ended
LoopOver == pc \in {"ret_summary", "crashed"}

----------------------------------------------------------------------------
(* C1: outside dry-run, when the provider send call raises for a recipient, *)
(* that recipient is counted failed and not sent, the loop does not stop,   *)
(* and every later recipient in the list is still processed.                *)
C1_SendErrorIsolated ==
    \A i \in Positions :
        Has("send_raise", i) =>
            /\ Count("failed", i) = 1
            /\ ~Has("sent", i)
            /\ pc # "crashed"
            /\ (Finished => \A j \in Positions : j > i => Visited(j))

----------------------------------------------------------------------------
(* C2: when the document-generation call fails for a recipient, that        *)
(* recipient is counted failed (not sent, not skipped), no send is          *)
(* attempted for it, the loop goes on to the next recipient, and the run    *)
(* ends with a non-zero exit code.                                          *)
C2_GenerationFailureIsolated ==
    \A i \in Positions :
        Has("gen_raise", i) =>
            /\ Count("failed", i) = 1
            /\ ~Has("sent", i) /\ ~Has("skipped", i)
            /\ ~SendAttempted(i)
            /\ summary.failed >= 1
            /\ (cur = i => pc = "loop" \/ Finished)
            /\ (Finished => /\ exit_code = <<1>>
                            /\ (i < Len(invitees) => Visited(i + 1)))

\* a generation failure is followed by a later recipient that is sent, and
\* the run ends
C2_Witness ==
    /\ pc = "ret_summary"
    /\ \E i \in Positions : Has("gen_raise", i) /\ i < Len(invitees) /\ Has("sent", i + 1)


----------------------------------------------------------------------------
(* Resume anchor *)

\* k is the first position whose phone equals a configured, non-empty anchor
FirstAnchor(k) ==
    /\ resume_from # None /\ resume_from # ""
    /\ invitees[k].phone = resume_from
    /\ \A j \in 1..(k - 1) : invitees[j].phone # resume_from

Dispatchable(i) == invitees[i].display_name # "" /\ invitees[i].phone # ""

(* C3: with the anchor equal to the phone of the recipient at position k,   *)
(* every recipient at positions 1..k-1 is counted skipped and every         *)
(* recipient at position k or later is processed normally: visited, not     *)
(* skipped by the resume gate, and sent or failed when it has a name and a  *)
(* phone.                                                                   *)
C3_ResumeAnchor ==
    LoopOver =>
        \A k \in Positions :
            FirstAnchor(k) =>
                /\ \A j \in 1..(k - 1) : Has("skipped", j)
                /\ \A j \in k..Len(invitees) :
                      /\ Visited(j)
                      /\ ~Has("before_anchor", j)
                      /\ (Dispatchable(j) => Has("sent", j) \/ Has("failed", j))

(* C4: the resume-ready flag is false until the first recipient whose phone *)
(* equals the anchor is visited, is true once that recipient was visited,   *)
(* and that recipient is not counted skipped by the resume gate.            *)
C4_FlagFlipsAtAnchor ==
    \A k \in Positions :
        (FirstAnchor(k) /\ pc \in {"loop", "resolve", "send", "ret_summary", "crashed"}) =>
            IF Visited(k) THEN resume_ready /\ ~Has("before_anchor", k)
                          ELSE ~resume_ready

(* C5: the resume-ready flag starts false exactly when a resume anchor was  *)
(* configured, never goes from true to false, and while it is false every   *)
(* recipient visited is counted skipped with no generation call and no send *)
(* call.                                                                    *)
C5_FlagState ==
    /\ (pc = "loop" /\ cur = 0) => (~resume_ready <=> resume_from # None)
    /\ ~resume_ready =>
          \A i \in Positions :
              Visited(i) => /\ Count("skipped", i) = 1
                            /\ ~Has("sent", i) /\ ~Has("failed", i)
                            /\ ~GenAttempted(i) /\ ~SendAttempted(i)

(* C5: C5_FlagState holds in every state and the resume-ready flag, once   *)
(* true, stays true.                                                        *)
C5_ResumeFlag == [] C5_FlagState /\ [][resume_ready => resume_ready']_vars

\* a recipient was skipped before the anchor, the flag then flipped and a
\* later recipient was sent
C5_Witness ==
    /\ resume_from # None
    /\ resume_ready
    /\ \E i, j \in Positions : i < j /\ Has("before_anchor", i) /\ Has("sent", j)

----------------------------------------------------------------------------
(* C6: a recipient whose display name or phone is empty is counted skipped  *)
(* when it is visited, is never sent or failed, and causes no generation or *)
(* send call, in every run mode and for every resume-anchor setting.        *)
C6_NeverDispatchable ==
    \A i \in Positions :
        (invitees[i].display_name = "" \/ invitees[i].phone = "") =>
            /\ ~Has("sent", i) /\ ~Has("failed", i) /\ ~Has("pass", i)
            /\ ~GenAttempted(i) /\ ~SendAttempted(i)
            /\ (Visited(i) => Count("skipped", i) = 1)
            /\ (pc = "ret_summary" => Has("skipped", i))

\* a named recipient without phone was skipped after the resume flag had
\* flipped, in a run that also sent
C6_Witness ==
    /\ pc = "ret_summary"
    /\ \E i, j \in Positions :
          /\ j < i
          /\ Has("sent", j)
          /\ invitees[i].display_name # "" /\ invitees[i].phone = ""
          /\ Has("skipped", i)

----------------------------------------------------------------------------
(* C7: the summary counters never decrease; each recipient visited          *)
(* increments processed exactly once and exactly one of sent, skipped,      *)
(* failed exactly once; so after each recipient's turn processed = sent +   *)
(* skipped + failed, processed <= total throughout, and processed = total   *)
(* when the loop ends.                                                      *)
TurnOver(i) == cur > i \/ pc \notin {"resolve", "send"}

C7_CounterState ==
    /\ summary.processed <= summary.total
    /\ \A i \in Positions :
          Visited(i) =>
              /\ Count("visit", i) = 1
              /\ TurnOver(i) =>
                    Count("sent", i) + Count("skipped", i) + Count("failed", i) = 1
    /\ pc \notin {"resolve", "send"} =>
          summary.processed = summary.sent + summary.skipped + summary.failed
    /\ pc = "ret_summary" => summary.processed = summary.total

(* C7: C7_CounterState holds in every state and no summary counter ever    *)
(* decreases.                                                               *)
C7_Counters ==
    /\ [] C7_CounterState
    /\ [][\A f \in {"total", "processed", "sent", "skipped", "failed"} :
              summary'[f] >= summary[f]]_vars

----------------------------------------------------------------------------
(* C8: a run that reaches the end of the recipient loop returns exit code 0 *)
(* if and only if the failed counter is zero, that is if and only if no     *)
(* recipient was counted failed; skipped recipients do not matter.          *)
C8_ExitCode ==
    pc = "ret_summary" =>
        /\ exit_code = <<0>> <=> summary.failed = 0
        /\ exit_code = <<1>> <=> summary.failed > 0
        /\ summary.failed = 0 <=> \A i \in Positions : ~Has("failed", i)

\* the loop ended with skipped and sent recipients and exit code 0
C8_Witness ==
    /\ pc = "ret_summary"
    /\ exit_code = <<0>>
    /\ summary.skipped > 0 /\ summary.sent > 0

----------------------------------------------------------------------------
(* C9 as stated: every run with a configuration error (missing credential   *)
(* outside dry-run, unusable source list, empty generation endpoint) ends   *)
(* with a non-zero exit code, whatever the source list contains.            *)
C9_ConfigErrorNonZero ==
    (/\ Finished
     /\ \/ pc \in {"ret_csv_error", "crashed_reading"}
        \/ (~dry_run /\ api_key = "")
        \/ pdf_api_url = "") => exit_code = <<1>>

(* C9 amended: an unusable source list always gives a non-zero exit code;   *)
(* a missing credential outside dry-run, or no document source (empty       *)
(* generation endpoint and, in v3, no static file URL), gives a non-zero    *)
(* exit code when the list has at least one data row; a list without data   *)
(* rows returns 0 before these checks.                                      *)
C9_ConfigErrorNonZeroWithRows ==
    Finished =>
        /\ pc \in {"ret_csv_error", "crashed_reading"} => exit_code = <<1>>
        /\ (/\ invitees # <<>>
            /\ \/ (~dry_run /\ api_key = "")
               \/ (pdf_api_url = "" /\ (script = "v3" => static_file_url = "")))
           => exit_code = <<1>>
        /\ pc = "ret_no_rows" => exit_code = <<0>>

\* a run with data rows and no document source has ended
C9_Witness ==
    /\ Finished
    /\ invitees # <<>>
    /\ pdf_api_url = "" /\ static_file_url = ""
    /\ api_key # ""

----------------------------------------------------------------------------
(* C10: a fatal error (unusable source list, or missing credential outside  *)
(* dry-run with a non-empty list) ends the run before any recipient is      *)
(* processed: no generation call, no send call, no counter incremented.     *)
C10_FatalBeforeLoop ==
    (\/ pc \in {"ret_csv_error", "crashed_reading", "ret_no_api_key"}
     \/ (~dry_run /\ api_key = "")) =>
        /\ events = <<>>
        /\ cur = 0
        /\ \A f \in {"total", "processed", "sent", "skipped", "failed"} : summary[f] = 0
        /\ pc \notin {"loop", "resolve", "send", "ret_summary", "crashed"}

\* the run was aborted for the missing credential with dispatchable rows
\* waiting
C10_Witness ==
    /\ pc = "ret_no_api_key"
    /\ Len(invitees) >= 2
    /\ \A i \in Positions : invitees[i].display_name # "" /\ invitees[i].phone # ""


----------------------------------------------------------------------------
(* Dry run *)

\* the document of recipient i was resolved (generated, or the static file)
Resolved(i) == Has("gen_ok", i) \/ Has("static", i)

(* C11: in dry-run mode no provider send call is made for any recipient and *)
(* no credential is required; each recipient that passed the gates and      *)
(* whose document was resolved is described and counted sent.               *)
C11_DryRunNoSend ==
    dry_run =>
        /\ \A i \in Positions : ~SendAttempted(i)
        /\ \A i \in Positions :
              (Resolved(i) /\ TurnOver(i)) =>
                  /\ Has("dry_run", i)
                  /\ Count("sent", i) = 1
                  /\ ~Has("failed", i) /\ ~Has("skipped", i)
        /\ pc \notin {"ret_no_api_key", "crashed"}

\* a dry run without credential described a send and reached the summary
C11_Witness ==
    /\ dry_run /\ api_key = ""
    /\ pc = "ret_summary"
    /\ \E i \in Positions : Has("dry_run", i) /\ Has("sent", i)

\* recipient i passes the name, phone and resume gates, read off the input
Gated(i) ==
    /\ invitees[i].display_name # "" /\ invitees[i].phone # ""
    /\ \/ resume_from = None
       \/ \E j \in 1..i : /\ invitees[j].display_name # ""
                          /\ invitees[j].phone # ""
                          /\ invitees[j].phone = resume_from

NumberOf(S) == Cardinality(S)

(* C12 as stated: a dry run makes no generation call and no send call, and  *)
(* its final counters are a function of the input alone, whatever the       *)
(* remote services answer.                                                  *)
C12_DryRunNoNetwork ==
    dry_run =>
        /\ \A i \in Positions : ~GenAttempted(i) /\ ~SendAttempted(i)
        /\ pc = "ret_summary" =>
              /\ summary.total = Len(invitees)
              /\ summary.processed = Len(invitees)
              /\ summary.sent = NumberOf({i \in Positions : Gated(i)})
              /\ summary.skipped = NumberOf({i \in Positions : ~Gated(i)})
              /\ summary.failed = 0

(* C12 amended: a dry run makes no send call; it makes the generation call  *)
(* for every recipient that passes the gates unless a static file URL is    *)
(* configured (v3); its final counters are a function of the input and of   *)
(* the generation answers: sent counts the gated recipients whose           *)
(* generation succeeded, failed those whose generation failed.              *)
C12_DryRunNoSendCall ==
    dry_run =>
        /\ \A i \in Positions : ~SendAttempted(i)
        /\ \A i \in Positions :
              GenAttempted(i) =>
                  /\ Gated(i)
                  /\ ~(script = "v3" /\ static_file_url # "")
        /\ pc = "ret_summary" =>
              /\ summary.total = Len(invitees)
              /\ summary.processed = Len(invitees)
              /\ summary.skipped = NumberOf({i \in Positions : ~Gated(i)})
              /\ summary.failed = NumberOf({i \in Positions : Has("gen_raise", i)})
              /\ summary.sent =
                    NumberOf({i \in Positions : Gated(i) /\ ~Has("gen_raise", i)})
              /\ \A i \in Positions :
                    (Gated(i) /\ ~(script = "v3" /\ static_file_url # ""))
                        => GenAttempted(i)

\* a dry run in which one generation failed and another recipient was sent
C12_Witness ==
    /\ dry_run
    /\ pc = "ret_summary"
    /\ \E i, j \in Positions : Has("gen_raise", i) /\ Has("gen_ok", j) /\ Has("sent", j)

----------------------------------------------------------------------------
(* C13: every run that has processed recipients ends with the final summary *)
(* block printed, whether or not recipients failed.                         *)
C13_SummaryPrinted == LoopOver => printed

----------------------------------------------------------------------------
(* Order of the steps *)

\* what happened to recipient i, in order
Steps(i) ==
    LET mine == SelectSeq(events, LAMBDA e : e.i = i)
    IN  [k \in 1..Len(mine) |-> mine[k].ev]

\* the complete turns a recipient can have
Turns ==
    {<<"visit", "no_name", "skipped">>,
     <<"visit", "no_phone", "skipped">>,
     <<"visit", "before_anchor", "skipped">>,
     <<"visit", "pass", "gen_raise", "failed">>}
    \cup UNION {{<<"visit", "pass", r, "dry_run", "sent">>,
                 <<"visit", "pass", r, "send_ret", "sent">>,
                 <<"visit", "pass", r, "send_raise", "failed">>,
                 <<"visit", "pass", r, "send_ret", "result_raise", "failed">>}
                : r \in {"gen_ok", "static"}}

IsPrefix(s, t) == Len(s) <= Len(t) /\ \A k \in 1..Len(s) : s[k] = t[k]

(* C14: recipients are processed in source order, one at a time: every step *)
(* for recipient i precedes every step for recipient i+1, and the steps of  *)
(* each recipient follow pending -> resume-skip | field-skip | resolve ->   *)
(* send -> sent | failed, a send never coming before the resolve.           *)
C14_SequentialOrder ==
    /\ \A k \in 1..(Len(events) - 1) :
          \/ events[k + 1].i = events[k].i
          \/ events[k + 1].i = events[k].i + 1 /\ events[k + 1].ev = "visit"
    /\ \A k \in 1..Len(events) : events[k].i \in 1..cur
    /\ \A i \in 1..cur : Steps(i) # <<>>
    /\ \A i \in 1..cur :
          IF i < cur \/ pc \in {"loop", "ret_summary"}
          THEN Steps(i) \in Turns
          ELSE \E t \in Turns : IsPrefix(Steps(i), t)
    /\ \A i \in Positions :
          SendAttempted(i) =>
              /\ Resolved(i)
              /\ \A k, l \in 1..Len(events) :
                    (/\ events[k] \in {Ev("gen_ok", i), Ev("static", i)}
                     /\ events[l] \in {Ev("send_ret", i), Ev("send_raise", i)})
                    => k < l

\* a first recipient was sent through the provider and a second one failed
C14_Witness ==
    /\ pc = "ret_summary"
    /\ Len(invitees) >= 2
    /\ Has("send_ret", 1) /\ Has("sent", 1)
    /\ Has("failed", 2)

----------------------------------------------------------------------------
(* C15: within one run the provider send endpoint is called at most once    *)
(* per recipient: a failed send is not retried, and the number of calls     *)
(* never exceeds the number of recipients visited.                          *)
C15_AtMostOneSend ==
    /\ \A i \in Positions : Count("send_ret", i) + Count("send_raise", i) <= 1
    /\ NumberOf({k \in 1..Len(events) : events[k].ev \in {"send_ret", "send_raise"}})
          <= summary.processed

\* a send failed, was counted, and the next recipient got its own send
C15_Witness ==
    /\ pc = "ret_summary"
    /\ \E i \in Positions :
          /\ Has("send_raise", i) /\ Has("failed", i)
          /\ i < Len(invitees) /\ SendAttempted(i + 1)

----------------------------------------------------------------------------
\* rows A (complete, not the anchor) and B (no phone) before row C (complete,
\* phone equal to the resume anchor)
Scenario3 ==
    /\ Len(invitees) = 3
    /\ resume_from # None
    /\ invitees[3].display_name # "" /\ invitees[3].phone # ""
    /\ invitees[3].phone = resume_from
    /\ \E a, b \in {1, 2} :
          /\ a # b
          /\ invitees[a].display_name # "" /\ invitees[a].phone # ""
          /\ invitees[a].phone # resume_from
          /\ invitees[b].phone = ""

\* nothing raised in any generation call or send block
AllCallsSucceeded ==
    \A i \in Positions :
        ~Has("gen_raise", i) /\ ~Has("send_raise", i) /\ ~Has("result_raise", i)

(* C16: for the three-row list A, B, C with the resume anchor on C and      *)
(* generation and send succeeding, the run ends after the loop with         *)
(* summary {total 3, processed 3, sent 1, skipped 2, failed 0} and exit     *)
(* code 0.                                                                  *)
C16_ThreeRowScenario ==
    (/\ Finished
     /\ Scenario3
     /\ AllCallsSucceeded
     /\ dry_run \/ api_key # ""
     /\ pdf_api_url # "" \/ (script = "v3" /\ static_file_url # ""))
    => /\ pc = "ret_summary"
       /\ summary = [total |-> 3, processed |-> 3, sent |-> 1,
                     skipped |-> 2, failed |-> 0]
       /\ exit_code = <<0>>

\* the scenario ran to its summary with a real send
C16_Witness ==
    /\ pc = "ret_summary"
    /\ Scenario3
    /\ AllCallsSucceeded
    /\ ~dry_run
    /\ Has("send_ret", 3)

----------------------------------------------------------------------------
(* Unit runs of the pure functions.  Text is a sequence of one-character   *)
(* strings, so that strip, startswith, slicing, lower and endswith act on  *)
(* characters as they do in the source.                                    *)

MaxCodeLen == 3

CodeChars == {"+", "9", "1", " "}

RECURSIVE TextsOfLen(_)
TextsOfLen(n) ==
    IF n = 0 THEN {<<>>}
    ELSE {Append(t, c) : t \in TextsOfLen(n - 1), c \in CodeChars}

\* what a country-code cell of the CSV may hold
CodeCells == UNION {TextsOfLen(n) : n \in 0..MaxCodeLen}

RECURSIVE lstrip(_)
lstrip(s) == IF s # <<>> /\ Head(s) = " " THEN lstrip(Tail(s)) ELSE s

RECURSIVE rstrip(_)
rstrip(s) ==
    IF s # <<>> /\ s[Len(s)] = " " THEN rstrip(SubSeq(s, 1, Len(s) - 1)) ELSE s

strip(s) == rstrip(lstrip(s))

startswith(s, prefix) ==
    /\ Len(s) >= Len(prefix)
    /\ SubSeq(s, 1, Len(prefix)) = prefix

endswith(s, suffix) ==
    /\ Len(s) >= Len(suffix)
    /\ SubSeq(s, Len(s) - Len(suffix) + 1, Len(s)) = suffix

lower_char(c) ==
    CASE c = "P" -> "p"
      [] c = "D" -> "d"
      [] c = "F" -> "f"
      [] c = "S" -> "s"
      [] c = "R" -> "r"
      [] c = "M" -> "m"
      [] OTHER -> c

lower(s) == [k \in 1..Len(s) |-> lower_char(s[k])]

\* header spellings accepted for each logical field, in priority order;
\* v3 and invites have no pdf_file entry, invites no first/last/gender
\* (a field without entry is read with an empty tuple of spellings)
FIELD_FALLBACKS(s) ==
    [display_name |-> <<"display_name", "Display Name", "name", "Name",
                        "full_name", "fullName">>,
     first_name |-> IF s = "invites" THEN <<>>
                    ELSE <<"first_name", "firstName", "firstname">>,
     last_name |-> IF s = "invites" THEN <<>>
                   ELSE <<"last_name", "lastName", "lastname">>,
     gender |-> IF s = "invites" THEN <<>> ELSE <<"gender", "salutation">>,
     phone |-> <<"phone", "mobileNo", "mobile">>,
     country_code |-> <<"country_code", "countryCode", "isdCode">>,
     pdf_file |-> IF s # "docs" THEN <<>>
                  ELSE <<"pdf_file", "pdfFile", "pdf_name", "pdfName",
                         "pdf_filename", "pdfFilename">>]

\* a cell the CSV reader filled with None: the row is shorter than the header
NoneCell == <<None>>

\* (value or "")
or_empty(value) == IF value = NoneCell THEN <<>> ELSE value

record_of_unstripped(row) ==
    [key \in DOMAIN row \ {""} |-> or_empty(row[key])]

\* record = {key: (value or "").strip() for key, value in row.items() if key}
record_of(row) ==
    [key \in DOMAIN row \ {""} |-> strip(or_empty(row[key]))]

\* the stripped value of the first key whose value in the record is non-empty
RECURSIVE pick_first(_, _)
pick_first(record, keys) ==
    IF keys = <<>> THEN <<>>
    ELSE IF Head(keys) \in DOMAIN record /\ record[Head(keys)] # <<>>
         THEN strip(record[Head(keys)])
         ELSE pick_first(record, Tail(keys))

default_country_code(s) ==
    IF s = "invites" THEN <<"9", "1">> ELSE <<"+", "9", "1">>

normalise_country_code(code) ==
    LET c == strip(code)
    IN IF c = <<>> THEN <<"9", "1">>
       ELSE IF startswith(c, <<"+">>) THEN Tail(c) ELSE c

\* Invitee.country_code as read_invitees stores it for a cell
read_country_code(s, cell) ==
    LET picked == pick_first(record_of("country_code" :> cell),
                             FIELD_FALLBACKS(s).country_code)
        country_code == IF picked # <<>> THEN picked ELSE default_country_code(s)
    IN normalise_country_code(country_code)

format_country_code(country_code) ==
    IF startswith(country_code, <<"+">>) THEN country_code
    ELSE <<"+">> \o country_code

PdfSuffix == <<".", "p", "d", "f">>

ensure_pdf_suffix_case_sensitive(name) ==
    IF endswith(name, PdfSuffix) THEN name ELSE name \o PdfSuffix

ensure_pdf_suffix(name) ==
    IF endswith(lower(name), PdfSuffix) THEN name ELSE name \o PdfSuffix

\* the values display_name and pdf_override take after read_invitees
NameTexts == {
    <<>>,
    <<"a">>,
    <<"a", ".", "p", "d", "f">>,
    <<"a", ".", "P", "D", "F">>,
    <<"a", ".", "P", "d", "f">>,
    <<".", "p", "d", "f">>,
    <<".", "P", "D", "F">>,
    <<"a", ".", "p", "d">>,
    <<"p", "d", "f">>,
    <<"a", ".", "p", "d", "f", ".", "x">>,
    <<"a", " ", "p", "d", "f">>,
    <<"S", "h", "r", "i", " ", "R", "a", "m", "e", "s", "h", " ", "M", " ", "S", "h", "a", "h">>,
    <<"S", "h", "r", "i", " ", "R", "a", "m", "e", "s", "h", " ", "M", " ", "S", "h", "a", "h", ".", "p", "d", "f">>
}

\* pdf_override is Optional[str]: {} is None, {t} is the text t
Overrides == {{}} \cup {{t} : t \in NameTexts \ {<<>>}}

\* [raised |-> TRUE] stands for the ValueError
pdf_file_name(pdf_override, display_name) ==
    LET base_name == IF \E t \in pdf_override : t # <<>>
                     THEN strip(CHOOSE t \in pdf_override : TRUE)
                     ELSE strip(display_name)
    IN IF base_name = <<>> THEN [raised |-> TRUE, name |-> <<>>]
       ELSE [raised |-> FALSE, name |-> ensure_pdf_suffix(base_name)]

----------------------------------------------------------------------------
(* load_env_file: the process environment is a function from the names    *)
(* that are set to their values; the file is a sequence of lines.          *)

MaxLines == 2

contains(s, c) == \E k \in 1..Len(s) : s[k] = c

\* position of the first occurrence of c in s
find(s, c) == CHOOSE k \in 1..Len(s) : s[k] = c /\ \A j \in 1..(k - 1) : s[j] # c

\* value[1:-1] when the value starts and ends with the same quote character
unquote(value) ==
    IF \/ startswith(value, <<"\"">>) /\ endswith(value, <<"\"">>)
       \/ startswith(value, <<"'">>) /\ endswith(value, <<"'">>)
    THEN SubSeq(value, 2, Len(value) - 1)
    ELSE value

setdefault(env, key, value) ==
    IF key \in DOMAIN env THEN env
    ELSE [x \in DOMAIN env \cup {key} |-> IF x = key THEN value ELSE env[x]]

\* one turn of the for loop; os.environ refuses an empty name with OSError
env_line(env, raw_line) ==
    LET line == strip(raw_line)
    IN IF line = <<>> \/ startswith(line, <<"#">>) THEN [raised |-> FALSE, env |-> env]
       ELSE IF ~contains(line, "=") THEN [raised |-> FALSE, env |-> env]
       ELSE LET k == find(line, "=")
                key == strip(SubSeq(line, 1, k - 1))
                value == unquote(strip(SubSeq(line, k + 1, Len(line))))
            IN IF key = <<>> THEN [raised |-> TRUE, env |-> env]
               ELSE [raised |-> FALSE, env |-> setdefault(env, key, value)]

RECURSIVE env_lines(_, _)
env_lines(env, lines) ==
    IF lines = <<>> THEN [raised |-> FALSE, env |-> env]
    ELSE LET r == env_line(env, Head(lines))
         IN IF r.raised THEN r ELSE env_lines(r.env, Tail(lines))

\* readable is FALSE when read_text raises FileNotFoundError or OSError
load_env_file(readable, lines, env) ==
    IF ~readable THEN [raised |-> FALSE, env |-> env]
    ELSE env_lines(env, lines)

EnvLines == {
    <<>>,
    <<" ">>,
    <<"#", "K", "=", "v">>,
    <<" ", "#", " ", "c">>,
    <<"K">>,
    <<"K", "=", "v">>,
    <<"K", "=", "w">>,
    <<" ", "K", " ", "=", " ", "v", " ">>,
    <<"K", "=", "\"", "v", "\"">>,
    <<"K", "=", "'", "v", "'">>,
    <<"K", "=", "\"", "v", "'">>,
    <<"K", "=", "\"">>,
    <<"K", "=">>,
    <<"K", "=", "v", "=", "w">>,
    <<"J", "=", "v">>,
    <<"=", "v">>
}

RECURSIVE EnvFilesOfLen(_)
EnvFilesOfLen(n) ==
    IF n = 0 THEN {<<>>}
    ELSE {Append(f, l) : f \in EnvFilesOfLen(n - 1), l \in EnvLines}

EnvFiles == UNION {EnvFilesOfLen(n) : n \in 0..MaxLines}

EnvKeys == {<<"K">>, <<"J">>}

\* process environments before the call: each name unset, set, or set empty
Environs ==
    {[k \in D |-> v] : D \in SUBSET EnvKeys, v \in {<<"o">>, <<>>}}

EnvInputs ==
    {[fn |-> "load_env_file", readable |-> TRUE, lines |-> f, env |-> e] :
        f \in EnvFiles, e \in Environs}
    \cup {[fn |-> "load_env_file", readable |-> FALSE, lines |-> <<>>, env |-> e] :
        e \in Environs}

----------------------------------------------------------------------------
(* The two HTTP calls as functions of what the server answers.             *)
(* transport: "unreachable" is URLError, "http_error" is HTTPError (urlopen *)
(* raises it for a status outside 2xx), "ok" is a response object.          *)
(* decodable: the body bytes decode in the response's charset.              *)
(* json/type/keys: what json.loads makes of the text: for an object its     *)
(* keys, for an array its elements, for a string the words it contains.     *)

JsonTypes == {"object", "array", "string", "null"}

JsonKeys == {"url", "path", "result"}

NoBody == [decodable |-> TRUE, json |-> FALSE, type |-> "null", keys |-> {}]

Bodies ==
    {[decodable |-> FALSE, json |-> FALSE, type |-> "null", keys |-> {}], NoBody}
    \cup {[decodable |-> TRUE, json |-> TRUE, type |-> t, keys |-> k] :
            t \in JsonTypes \ {"null"}, k \in SUBSET JsonKeys}
    \cup {[decodable |-> TRUE, json |-> TRUE, type |-> "null", keys |-> {}]}

HttpResponses ==
    {[transport |-> "unreachable", status |-> 0, body |-> NoBody]}
    \cup {[transport |-> "http_error", status |-> s, body |-> NoBody] :
            s \in {404, 500}}
    \cup {[transport |-> "ok", status |-> s, body |-> b] :
            s \in {200, 201, 202, 204}, b \in Bodies}

Raise(exc) == [raised |-> TRUE, error |-> exc, carries |-> {}, result |-> {}]

Return(keys) == [raised |-> FALSE, error |-> "", carries |-> {}, result |-> keys]

\* '"url" in data': membership test, TypeError on null
member_raises(body) == body.type = "null"

\* 'data["url"]': TypeError unless data is an object
index_raises(body) == body.type # "object"

success_status_any_2xx(status) == status \in 200..299

\* response.status in (200, 201)
success_status(status) == status \in {200, 201}

generate_pdf_via_api(r) ==
    IF r.transport = "unreachable" THEN Raise("RuntimeError")
    ELSE IF r.transport = "http_error" THEN Raise("RuntimeError")
    ELSE IF ~r.body.decodable THEN Raise("UnicodeDecodeError")
    ELSE IF ~r.body.json THEN Raise("RuntimeError")
    ELSE IF ~success_status(r.status) THEN Raise("RuntimeError")
    ELSE IF member_raises(r.body) THEN Raise("TypeError")
    ELSE IF "url" \notin r.body.keys \/ "path" \notin r.body.keys
         THEN Raise("RuntimeError")
    ELSE IF index_raises(r.body) THEN Raise("TypeError")
    ELSE Return({"url", "path"})

\* InteraktClient.send_document / send_template_document /
\* send_template_with_button: the same try block in all of them
send_request(r) ==
    IF r.transport = "unreachable" THEN Raise("URLError")
    ELSE IF r.transport = "http_error"
         THEN [raised |-> TRUE, error |-> "RuntimeError",
               carries |-> {"status", "body"}, result |-> {}]
    ELSE IF ~r.body.decodable THEN Raise("UnicodeDecodeError")
    ELSE IF r.body.json THEN Return(r.body.keys)
    ELSE Return({"status", "body"})

HttpInputs ==
    {[fn |-> f, response |-> r] :
        f \in {"generate_pdf_via_api", "send_request"}, r \in HttpResponses}

----------------------------------------------------------------------------
(* What main puts in the payload of one send, as a function of the run's   *)
(* options.  URLs are opaque; option texts are sequences of characters.    *)

MaxValues == 2

RECURSIVE split(_, _)
split(s, sep) ==
    IF ~contains(s, sep) THEN <<s>>
    ELSE LET k == find(s, sep)
         IN <<SubSeq(s, 1, k - 1)>> \o split(SubSeq(s, k + 1, Len(s)), sep)

RECURSIVE join(_, _)
join(parts, sep) ==
    IF parts = <<>> THEN <<>>
    ELSE IF Len(parts) = 1 THEN parts[1]
    ELSE parts[1] \o <<sep>> \o join(Tail(parts), sep)

\* [value.strip() for value in raw.split(",")], [] for an empty option
parse_body_values(raw) ==
    IF raw = <<>> THEN <<>>
    ELSE LET parts == split(raw, ",")
         IN [k \in 1..Len(parts) |-> strip(parts[k])]

\* one ';'-separated chunk: its non-empty trimmed values
button_group(chunk) ==
    LET parts == split(strip(chunk), ",")
        trimmed == [k \in 1..Len(parts) |-> strip(parts[k])]
    IN SelectSeq(trimmed, LAMBDA v : v # <<>>)

parse_button_values(raw) ==
    IF raw = <<>> THEN <<>>
    ELSE LET chunks == split(raw, ";")
             groups == [k \in 1..Len(chunks) |-> button_group(chunks[k])]
         IN SelectSeq(groups, LAMBDA g : g # <<>>)

\* the one-element list HARDCODED_BODY_VALUES; its text abbreviated
HARDCODED_BODY_VALUES == <<<<"M", "M">>>>

\* what the resolve step produced for the recipient
media_url == "doc_url"

file_name == <<"f">>

OptionValues == {<<"a">>, <<"b">>}

RECURSIVE ListsOfLen(_, _)
ListsOfLen(S, n) ==
    IF n = 0 THEN {<<>>}
    ELSE {Append(l, x) : l \in ListsOfLen(S, n - 1), x \in S}

ListsUpTo(S, n) == UNION {ListsOfLen(S, k) : k \in 0..n}

\* values given with --template-body-values
BodyConfigs == ListsUpTo(OptionValues, MaxValues)

\* groups given with --template-button-values
ButtonConfigs == ListsUpTo(ListsUpTo(OptionValues, 2) \ {<<>>}, MaxValues)

body_option(values) == join(values, ",")

button_option(groups) ==
    join([k \in 1..Len(groups) |-> join(groups[k], ",")], ";")

PayloadInputs ==
    {[fn |-> "send_payload", template_name |-> t, header_url |-> h,
      body_values |-> b, button_values |-> g,
      template_body_values |-> body_option(b),
      template_button_values |-> button_option(g)] :
        t \in {"", "tpl"}, h \in {"", "img_url"},
        b \in BodyConfigs, g \in ButtonConfigs}

\* options the script has: docs.py has neither a header URL nor button
\* values; invites.py always sends a template and has only --header-image
has_options(s, in) ==
    CASE s = "docs" -> in.header_url = "" /\ in.button_values = <<>>
      [] s = "invites" -> /\ in.template_name = "tpl"
                          /\ in.body_values = <<>>
                          /\ in.button_values = <<>>
      [] OTHER -> TRUE

template_header_document_fallback(s, header_url) ==
    CASE s = "docs" -> <<media_url>>
      [] s = "invites" -> <<header_url>>
      [] OTHER -> IF header_url # "" THEN <<header_url>> ELSE <<media_url>>

\* headerValues of a template payload (absent is <<>>)
template_header(s, header_url) ==
    CASE s = "docs" -> <<media_url>>
      [] s = "invites" -> <<header_url>>
      [] OTHER -> IF header_url # "" THEN <<header_url>> ELSE <<>>

\* bodyValues of a template payload
template_body(s, in) ==
    CASE s = "docs" -> parse_body_values(in.template_body_values)
      [] s = "invites" -> <<>>
      [] OTHER -> HARDCODED_BODY_VALUES

\* buttonValues of a template payload (absent is <<>>)
template_buttons(s, in) ==
    CASE s = "docs" -> <<>>
      [] s = "invites" -> <<<<file_name>>>>
      [] OTHER ->
            LET groups == parse_button_values(in.template_button_values)
            IN IF groups # <<>> THEN groups ELSE <<<<file_name>>>>

send_payload(s, in) ==
    IF in.template_name # ""
    THEN [type |-> "Template",
          headerValues |-> template_header(s, in.header_url),
          fileName |-> IF s = "docs" THEN <<file_name>> ELSE <<>>,
          bodyValues |-> template_body(s, in),
          buttonValues |-> template_buttons(s, in),
          mediaUrl |-> <<>>]
    ELSE [type |-> "Document",
          headerValues |-> <<>>,
          fileName |-> <<>>,
          bodyValues |-> <<>>,
          buttonValues |-> <<>>,
          mediaUrl |-> <<media_url>>]

----------------------------------------------------------------------------
(* Rows of the CSV: a row is a function from the header names of the file  *)
(* to the cells of the row.                                                *)

MaxColumns == 2

FieldNames == {"display_name", "first_name", "last_name", "gender", "phone",
               "country_code", "pdf_file"}

Spellings(s, field) ==
    {FIELD_FALLBACKS(s)[field][k] : k \in 1..Len(FIELD_FALLBACKS(s)[field])}

CellTexts == {NoneCell, <<>>, <<" ">>, <<"x">>, <<" ", "y", " ">>}

\* rows of a file with at most MaxColumns of the given headers
RowsOver(headers) ==
    UNION {[H -> CellTexts] :
            H \in {G \in SUBSET headers : Cardinality(G) <= MaxColumns}}

PickInputs(s) ==
    {[fn |-> "pick_first", field |-> f, row |-> r] :
        f \in FieldNames, r \in RowsOver(Spellings(s, "phone") \cup {"other"})}
    \cup UNION {{[fn |-> "pick_first", field |-> f, row |-> r] :
                    r \in RowsOver(Spellings(s, f))} : f \in FieldNames}

Shri == <<"S", "h", "r", "i">>

\* Invitee.display_name of a row: the direct value, else "Shri", first name
\* with the honorific appended, last name
display_name(s, record) ==
    LET first == pick_first(record, FIELD_FALLBACKS(s).first_name)
        last == pick_first(record, FIELD_FALLBACKS(s).last_name)
        gender == pick_first(record, FIELD_FALLBACKS(s).gender)
        direct == pick_first(record, FIELD_FALLBACKS(s).display_name)
        first_gender == strip(first \o gender)
        parts == <<Shri, first_gender, last>>
    IN IF direct = <<>> /\ (first # <<>> \/ last # <<>> \/ gender # <<>>)
       THEN strip(strip(join(SelectSeq(parts, LAMBDA p : p # <<>>), " ")))
       ELSE strip(direct)

\* rows with a name column and first name, honorific and last name columns
NameRows ==
    {("name" :> n) @@ ("first_name" :> f) @@ ("gender" :> g)
        @@ ("last_name" :> l) :
        n \in {<<>>, <<" ">>, <<"N">>},
        f \in {NoneCell, <<>>, <<"R">>, <<" ", "R">>},
        g \in {<<>>, <<"b">>},
        l \in {<<>>, <<" ">>, <<"S">>}}

NameInputs == {[fn |-> "display_name", row |-> r] : r \in NameRows}

----------------------------------------------------------------------------
(* read_invitees on a file.  opens: what csv_path.open does; content: what *)
(* reading makes of the bytes ("empty": no header line, "undecodable": not *)
(* UTF-8, "malformed": the csv module rejects it); rows: the lines after   *)
(* the header, a blank line being the row without cells.                   *)

MaxFileRows == 2

FileRows ==
    {<<>>} \cup [{"name", "phone"} -> {NoneCell, <<>>, <<"x">>, <<"y">>}]

CsvFiles ==
    {[opens |-> o, content |-> "ok", rows |-> <<>>] : o \in {"not_found", "os_error"}}
    \cup {[opens |-> "ok", content |-> c, rows |-> <<>>] :
            c \in {"empty", "undecodable", "malformed"}}
    \cup {[opens |-> "ok", content |-> "ok", rows |-> r] :
            r \in ListsUpTo(FileRows, MaxFileRows)}

invitee_of_row(s, index, row) ==
    LET record == record_of(row)
        picked == pick_first(record, FIELD_FALLBACKS(s).country_code)
        pdf_file == pick_first(record, FIELD_FALLBACKS(s).pdf_file)
    IN [line_no |-> index,
        phone |-> pick_first(record, FIELD_FALLBACKS(s).phone),
        country_code |-> normalise_country_code(
            IF picked # <<>> THEN picked ELSE default_country_code(s)),
        display_name |-> display_name(s, record),
        pdf_override |-> IF pdf_file # <<>> THEN {pdf_file} ELSE {}]

data_rows_with_phone(rows) ==
    SelectSeq(rows, LAMBDA row : row # <<>> /\ or_empty(row["phone"]) # <<>>)

\* the rows csv.DictReader yields: it passes over blank lines
data_rows(rows) == SelectSeq(rows, LAMBDA row : row # <<>>)

load_invitees(s, file) ==
    IF file.opens # "ok" \/ file.content = "empty"
    THEN [raised |-> TRUE, error |-> "CsvError", invitees |-> <<>>]
    ELSE IF file.content = "undecodable"
    THEN [raised |-> TRUE, error |-> "UnicodeDecodeError", invitees |-> <<>>]
    ELSE IF file.content = "malformed"
    THEN [raised |-> TRUE, error |-> "csv.Error", invitees |-> <<>>]
    ELSE [raised |-> FALSE, error |-> "",
          invitees |-> [i \in 1..Len(data_rows(file.rows)) |->
                            invitee_of_row(s, i + 1, data_rows(file.rows)[i])]]

FileInputs == {[fn |-> "read_invitees", file |-> f] : f \in CsvFiles}

\* the keyword arguments of the generate_pdf_via_api call main makes for an
\* invitee: text=invitee.display_name or ""
resolve_request(invitee) == [text |-> invitee.display_name]

\* invitees that passed the name gate, with and without pdf_override
ResolveInputs ==
    {[fn |-> "resolve_request", pdf_override |-> o, display_name |-> d] :
        o \in Overrides, d \in NameTexts \ {<<>>}}

----------------------------------------------------------------------------
(* The JSON object generate_pdf_via_api of send_whatsapp_docs.py posts, as  *)
(* a function of its keyword arguments.  An Optional value is a set: {} is  *)
(* None, {v} is the value v.                                                *)

OPTIONAL_FIELDS == {"x_position", "y_position", "font_size", "text_color"}

\* x_position: Optional[float] = None, ..., text_color: Optional[str] = None
keyword_defaults == [f \in OPTIONAL_FIELDS |-> {}]

\* the parameters of a call: the keyword arguments given, the defaults for
\* the others
call_arguments(kwargs) == kwargs @@ keyword_defaults

\* optional fields added to the payload when truthy: 0 and "" are left out
generation_payload_truthy(args) ==
    LET keys == {"text"} \cup {f \in OPTIONAL_FIELDS :
                                 args[f] # {} /\ args[f] # {0} /\ args[f] # {""}}
    IN  [k \in keys |-> IF k = "text" THEN args.text ELSE CHOOSE v \in args[k] : TRUE]

\* payload = {"text": text}; if x_position is not None: payload["x_position"]
\* = x_position; the same for y_position, font_size, text_color
generation_payload(args) ==
    LET keys == {"text"} \cup {f \in OPTIONAL_FIELDS : args[f] # {}}
    IN  [k \in keys |-> IF k = "text" THEN args.text ELSE CHOOSE v \in args[k] : TRUE]

\* what a caller can pass for an optional keyword: nothing, None, or a value
OptionalNumbers == {{}, {0}, {12}}

OptionalColors == {{}, {""}, {"red"}}

OptionalKeywords ==
    {[f \in given |-> IF f = "text_color" THEN c ELSE n[f]] :
        given \in SUBSET OPTIONAL_FIELDS,
        c \in OptionalColors,
        n \in [{"x_position", "y_position", "font_size"} -> OptionalNumbers]}

\* calls of generate_pdf_via_api: the one main makes for an invitee that
\* passed the name gate, and calls with any keyword arguments
GenerationInputs ==
    {[fn |-> "generation_payload", caller |-> "main", display_name |-> d,
      kwargs |-> resolve_request([display_name |-> d])] :
        d \in NameTexts \ {<<>>}}
    \cup {[fn |-> "generation_payload", caller |-> "direct",
           kwargs |-> ("text" :> t) @@ o] :
            t \in {<<>>, <<"a">>}, o \in OptionalKeywords}

----------------------------------------------------------------------------
(* The document step of one loop iteration of send_whatsapp_docs_v3.py:     *)
(* the static file when --file-url is set, a generation call otherwise.     *)
(* URLs are texts; hosts are written without brackets.                      *)

\* urllib.parse.scheme_chars, among the characters the URLs here use
scheme_chars == {"h", "t", "p", "s", "x", "a", "b", "d", "f", "."}

\* urllib.parse.uses_params, among the schemes the URLs here use
uses_params == {<<>>, <<"h", "t", "t", "p">>, <<"h", "t", "t", "p", "s">>, <<"f", "t", "p">>}

\* str.find(c, start) for any c of chars: the first position at or after
\* start holding one of chars, Len(s) + 1 when there is none
first_of(s, chars, start) ==
    IF \E k \in start..Len(s) : s[k] \in chars
    THEN CHOOSE k \in start..Len(s) :
            s[k] \in chars /\ \A j \in start..(k - 1) : s[j] \notin chars
    ELSE Len(s) + 1

\* str.rfind(c): the last position holding c, 0 when there is none
rfind(s, c) ==
    IF contains(s, c)
    THEN CHOOSE k \in 1..Len(s) : s[k] = c /\ \A j \in (k + 1)..Len(s) : s[j] # c
    ELSE 0

\* urlsplit: [scheme, rest of the url after the scheme and its colon]
split_scheme(url) ==
    LET i == first_of(url, {":"}, 1)
    IN  IF /\ i > 1 /\ i <= Len(url)
           /\ \A k \in 1..(i - 1) : url[k] \in scheme_chars
        THEN [scheme |-> lower(SubSeq(url, 1, i - 1)),
              url |-> SubSeq(url, i + 1, Len(url))]
        ELSE [scheme |-> <<>>, url |-> url]

\* urlsplit: if url[:2] == '//': netloc, url = _splitnetloc(url, 2)
drop_netloc(url) ==
    IF startswith(url, <<"/", "/">>)
    THEN SubSeq(url, first_of(url, {"/", "?", "#"}, 3), Len(url))
    ELSE url

\* url.split('#', 1)[0], then url.split('?', 1)[0]
drop_fragment_and_query(url) ==
    LET no_fragment == SubSeq(url, 1, first_of(url, {"#"}, 1) - 1)
    IN  SubSeq(no_fragment, 1, first_of(no_fragment, {"?"}, 1) - 1)

\* _splitparams(url)[0]: the parameters of the last segment dropped
drop_params(url) ==
    LET i == IF contains(url, "/") THEN first_of(url, {";"}, rfind(url, "/"))
                                   ELSE first_of(url, {";"}, 1)
    IN  SubSeq(url, 1, i - 1)

\* urlparse(url).path
urlparse_path(url) ==
    LET s == split_scheme(url)
        path == drop_fragment_and_query(drop_netloc(s.url))
    IN  IF s.scheme \in uses_params /\ contains(path, ";")
        THEN drop_params(path) ELSE path

\* Path(path).name: the last component, components being the pieces between
\* slashes that are neither empty nor "."; '' when there is none
path_name(path) ==
    LET parts == SelectSeq(split(path, "/"), LAMBDA p : p # <<>> /\ p # <<".">>)
    IN  IF parts = <<>> THEN <<>> ELSE parts[Len(parts)]

\* Path(parsed.path).name or "invite.pdf", the fallback left out
url_file_name_no_fallback(url) == path_name(urlparse_path(url))

\* Path(parsed.path).name or "invite.pdf"
url_file_name(url) ==
    LET name == path_name(urlparse_path(url))
    IN  IF name = <<>> THEN <<"i", "n", "v", "i", "t", "e", ".", "p", "d", "f">> ELSE name

\* the path field of a successful generation response
GeneratedPath == <<"/", "t", "m", "p", "/", "a", ".", "p", "d", "f">>

\* lines 535-556 for one recipient: calls made, whether the recipient was
\* counted failed and the loop continued, and media_url and file_name
resolve_document(file_url, file_name_option, response) ==
    LET file_url_arg == strip(file_url)
        file_name_arg == strip(file_name_option)
    IN  IF file_url_arg # <<>>
        THEN [calls |-> <<>>, failed |-> FALSE,
              media_url |-> file_url_arg,
              file_name |-> IF file_name_arg # <<>> THEN file_name_arg
                            ELSE url_file_name(file_url_arg)]
        ELSE IF generate_pdf_raises(response)
        THEN [calls |-> <<"generate_pdf_via_api">>, failed |-> TRUE]
        ELSE [calls |-> <<"generate_pdf_via_api">>, failed |-> FALSE,
              media_url |-> <<"u">>,
              file_name |-> path_name(GeneratedPath)]

\* the parts a URL is written from: scheme with its colon, '//' and host,
\* path, and what follows the path
UrlSchemes == {<<>>, <<"h", "t", "t", "p", "s", ":">>, <<"x", ":">>}

UrlHosts == {<<>>, <<"/", "/", "h">>}

UrlPaths == {<<>>, <<"/">>, <<"/", "b", ".", "p", "d", "f">>, <<"/", "a", "/", "b", ".", "p", "d", "f">>, <<"/", "a", "/">>, <<"/", "a", "/", "/">>, <<"/", "a", "/", ".">>, <<"/", "a", "/", ".", ".">>, <<"b", ".", "p", "d", "f">>, <<"/", "a", ";", "p", "/", "b">>}

UrlTails == {<<>>, <<"?", "q", "/", "r">>, <<"#", "f", "/", "g">>, <<";", "p">>}

\* a tail of parameters is written after a path of a scheme that has them
UrlParts ==
    {p \in [scheme : UrlSchemes, host : UrlHosts, path : UrlPaths, tail : UrlTails] :
        /\ p.tail = <<";", "p">> => (p.scheme # <<"x", ":">> /\ p.path # <<>>)
        /\ (p.host # <<>> /\ p.path # <<>>) => Head(p.path) = "/"
        /\ (p.host = <<>> /\ Len(p.path) >= 2) => SubSeq(p.path, 1, 2) # <<"/", "/">>}

url_text(p) == p.scheme \o p.host \o p.path \o p.tail

\* --file-url and --file-name as given, and the answer of the generation
\* endpoint
DocumentInputs ==
    {[fn |-> "resolve_document", parts |-> p, file_url |-> pad \o url_text(p) \o pad,
      file_name |-> n, response |-> r] :
        p \in UrlParts, pad \in {<<>>, <<" ">>},
        n \in {<<>>, <<" ">>, <<" ", "n", ".", "p", "d", "f">>},
        r \in {"ok", "unreachable"}}

----------------------------------------------------------------------------
(* The start of main: parse_arguments with its defaults read from           *)
(* os.environ, the options main derives from the arguments, load_env_file,  *)
(* and the credential read afterwards.  Option values and variable names    *)
(* are texts.                                                               *)

DEFAULT_MEDIA_BASE_URL == <<"h", "t", "t", "p", "s", ":", "/", "/", "m", "m", ".", "p", "u", "r", "e", "b", "i", "l", "l", "i", "o", "n", ".", "t", "e", "c", "h", "/", "p", "d", "f", "s", "/">>

DEFAULT_DOCUMENT_MESSAGE == <<>>

DEFAULT_PDF_API_URL == <<"h", "t", "t", "p", ":", "/", "/", "1", "2", "7", ".", "0", ".", "0", ".", "1", ":", "8", "0", "0", "0", "/", "a", "p", "i", "/", "g", "e", "n", "e", "r", "a", "t", "e", "-", "p", "d", "f">>

PDF_API_URL == <<"P", "D", "F", "_", "A", "P", "I", "_", "U", "R", "L">>

WHATSAPP_API_KEY == <<"W", "H", "A", "T", "S", "A", "P", "P", "_", "A", "P", "I", "_", "K", "E", "Y">>

\* add_argument(..., default=os.environ.get(variable, default)): the options
\* of each script whose default is read from the environment
ENV_DEFAULTS(s) ==
    LET pdf == "pdf_api_url" :> [variable |-> PDF_API_URL,
                                 default |-> DEFAULT_PDF_API_URL]
        docs == ("media_base_url" :> [variable |-> <<"W", "H", "A", "T", "S", "A", "P", "P", "_", "M", "E", "D", "I", "A", "_", "B", "A", "S", "E", "_", "U", "R", "L">>,
                                      default |-> DEFAULT_MEDIA_BASE_URL])
             @@ ("document_message" :> [variable |-> <<"W", "H", "A", "T", "S", "A", "P", "P", "_", "D", "O", "C", "U", "M", "E", "N", "T", "_", "M", "E", "S", "S", "A", "G", "E">>,
                                        default |-> DEFAULT_DOCUMENT_MESSAGE])
             @@ ("callback_data" :> [variable |-> <<"W", "H", "A", "T", "S", "A", "P", "P", "_", "C", "A", "L", "L", "B", "A", "C", "K", "_", "D", "A", "T", "A">>,
                                     default |-> <<>>])
             @@ pdf
        v3 == ("campaign_id" :> [variable |-> <<"W", "H", "A", "T", "S", "A", "P", "P", "_", "C", "A", "M", "P", "A", "I", "G", "N", "_", "I", "D">>, default |-> <<>>])
           @@ ("file_url" :> [variable |-> <<"W", "H", "A", "T", "S", "A", "P", "P", "_", "S", "T", "A", "T", "I", "C", "_", "F", "I", "L", "E", "_", "U", "R", "L">>, default |-> <<>>])
           @@ ("file_name" :> [variable |-> <<"W", "H", "A", "T", "S", "A", "P", "P", "_", "S", "T", "A", "T", "I", "C", "_", "F", "I", "L", "E", "_", "N", "A", "M", "E">>, default |-> <<>>])
           @@ ("header_caption" :> [variable |-> <<"W", "H", "A", "T", "S", "A", "P", "P", "_", "H", "E", "A", "D", "E", "R", "_", "C", "A", "P", "T", "I", "O", "N">>, default |-> <<>>])
           @@ ("template_header_url" :> [variable |-> <<"W", "H", "A", "T", "S", "A", "P", "P", "_", "T", "E", "M", "P", "L", "A", "T", "E", "_", "H", "E", "A", "D", "E", "R", "_", "U", "R", "L">>,
                                         default |-> <<>>])
           @@ docs
    IN  CASE s = "docs" -> docs
          [] s = "v3" -> v3
          [] s = "invites" -> pdf

\* os.environ.get(key, default)
environ_get(env, key, default) == IF key \in DOMAIN env THEN env[key] ELSE default

\* parser.parse_args(argv): the option given on the command line, else its
\* default, evaluated when the parser is built
parse_arguments(s, argv, env) ==
    [o \in DOMAIN ENV_DEFAULTS(s) |->
        IF o \in DOMAIN argv THEN argv[o]
        ELSE environ_get(env, ENV_DEFAULTS(s)[o].variable, ENV_DEFAULTS(s)[o].default)]

\* the assignments of main between parse_arguments and load_env_file
resolve_options(args, env) ==
    [o \in DOMAIN args |->
        CASE o = "media_base_url" ->
                LET base == IF strip(args[o]) # <<>> THEN strip(args[o])
                                                    ELSE DEFAULT_MEDIA_BASE_URL
                IN  IF endswith(base, <<"/">>) THEN base ELSE base \o <<"/">>
          [] o = "pdf_api_url" ->
                IF strip(args[o]) # <<>> THEN strip(args[o])
                ELSE environ_get(env, PDF_API_URL, DEFAULT_PDF_API_URL)
          [] OTHER -> strip(args[o])]

\* main with load_env_file moved in front of parse_arguments
start_up_env_file_first(s, argv, env, readable, lines) ==
    LET loaded == load_env_file(readable, lines, env)
        args == parse_arguments(s, argv, loaded.env)
    IN  IF loaded.raised THEN [raised |-> TRUE]
        ELSE [raised |-> FALSE,
              options |-> resolve_options(args, loaded.env),
              api_key |-> strip(environ_get(loaded.env, WHATSAPP_API_KEY, <<>>))]

\* args = parse_arguments(argv); ...; load_env_file(env_file); ...;
\* api_key = os.environ.get("WHATSAPP_API_KEY", "").strip()
start_up(s, argv, env, readable, lines) ==
    LET args == parse_arguments(s, argv, env)
        options == resolve_options(args, env)
        loaded == load_env_file(readable, lines, env)
    IN  IF loaded.raised THEN [raised |-> TRUE]
        ELSE [raised |-> FALSE,
              options |-> options,
              api_key |-> strip(environ_get(loaded.env, WHATSAPP_API_KEY, <<>>))]

\* the variables a script reads
Variables(s) ==
    {ENV_DEFAULTS(s)[o].variable : o \in DOMAIN ENV_DEFAULTS(s)} \cup {WHATSAPP_API_KEY}

\* the line of an environment file that gives a variable the value F
file_line(variable) == variable \o <<"=", "F">>

\* a run's command line (no option, or one option with the value A), its
\* process environment (no variable, or one with the value E) and its
\* environment file (up to MaxLines lines, each giving a variable)
StartInputs(s) ==
    {[fn |-> "start_up", argv |-> a, environ |-> e, readable |-> r, lines |-> l] :
        a \in {<<>>} \cup {o :> <<"A">> : o \in {"pdf_api_url"}},
        e \in {<<>>} \cup {v :> <<"E">> : v \in Variables(s)},
        r \in BOOLEAN,
        l \in ListsUpTo({file_line(v) : v \in Variables(s)}, MaxLines)}

----------------------------------------------------------------------------
(* add_devanupriya_prefix.py: main over a directory, given as the set of    *)
(* the names in it, and then main once more over what the first run left.   *)

PREFIX == <<"D", "e", "v", "a", "n", "u", "p", "r", "i", "y", "a", " ">>

\* ord(c) for the characters of the file names here
ord(c) ==
      CASE c = " " -> 32
        [] c = "." -> 46
        [] c = "D" -> 68
        [] c = "a" -> 97
        [] c = "b" -> 98
        [] c = "d" -> 100
        [] c = "e" -> 101
        [] c = "f" -> 102
        [] c = "i" -> 105
        [] c = "n" -> 110
        [] c = "p" -> 112
        [] c = "r" -> 114
        [] c = "t" -> 116
        [] c = "u" -> 117
        [] c = "v" -> 118
        [] c = "x" -> 120
        [] c = "y" -> 121

\* s < t for str
RECURSIVE str_less(_, _)
str_less(s, t) ==
    IF t = <<>> THEN FALSE
    ELSE IF s = <<>> THEN TRUE
    ELSE IF Head(s) = Head(t) THEN str_less(Tail(s), Tail(t))
    ELSE ord(Head(s)) < ord(Head(t))

RECURSIVE sorted(_)
sorted(S) ==
    IF S = {} THEN <<>>
    ELSE LET first == CHOOSE s \in S : \A t \in S \ {s} : str_less(s, t)
         IN  <<first>> \o sorted(S \ {first})

\* directory.glob("*.pdf")
glob_pdf(directory) == {name \in directory : endswith(name, <<".", "p", "d", "f">>)}

\* the check of the target left out
target_exists_unchecked(directory, target) == FALSE

\* target.exists()
target_exists(directory, target) == target \in directory

\* pdf.rename(target)
rename(directory, name, target) == (directory \ {name}) \cup {target}

\* lines 34-41 of main: what the run starts its loop with, or its return
prefix_main(directory, is_dir, dry, log, run) ==
    LET pdfs == sorted(glob_pdf(directory))
        state == [fn |-> "add_prefix", directory |-> directory, dry_run |-> dry,
                  log |-> log, run |-> run]
    IN  IF ~is_dir THEN state @@ [pdfs |-> <<>>, exit_code |-> <<1>>]
        ELSE IF pdfs = <<>> THEN state @@ [pdfs |-> <<>>, exit_code |-> <<0>>]
        ELSE state @@ [pdfs |-> pdfs, exit_code |-> <<>>]

\* one line of output about a file, with the directory it was decided on
prefix_line(kind, name, target, st) ==
    [kind |-> kind, name |-> name, target |-> target, run |-> st.run,
     before |-> st.directory]

\* one turn of the for loop, lines 43-56
prefix_step(st) ==
    LET name == Head(st.pdfs)
        target == PREFIX \o name
        next == [st EXCEPT !.pdfs = Tail(st.pdfs)]
    IN  IF startswith(name, PREFIX)
        THEN [next EXCEPT !.log = Append(st.log, prefix_line("skip", name, name, st))]
        ELSE IF target_exists(st.directory, target)
        THEN [next EXCEPT !.log = Append(st.log, prefix_line("error", name, target, st))]
        ELSE IF st.dry_run
        THEN [next EXCEPT !.log = Append(st.log, prefix_line("dry-run", name, target, st))]
        ELSE [next EXCEPT !.directory = rename(st.directory, name, target),
                          !.log = Append(st.log, prefix_line("renamed", name, target, st))]

\* names a directory may hold: with the prefix, with it twice, with its
\* letters but not its space, and a file that is no PDF
FileNames == {<<"a", ".", "p", "d", "f">>, <<"b", ".", "p", "d", "f">>,
              <<"D", "e", "v", "a", "n", "u", "p", "r", "i", "y", "a", " ", "a", ".", "p", "d", "f">>,
              <<"D", "e", "v", "a", "n", "u", "p", "r", "i", "y", "a", " ", "D", "e", "v", "a", "n", "u", "p", "r", "i", "y", "a", " ", "a", ".", "p", "d", "f">>,
              <<"D", "e", "v", "a", "n", "u", "p", "r", "i", "y", "a", "b", ".", "p", "d", "f">>,
              <<"a", ".", "t", "x", "t">>}

PrefixInputs ==
    {[fn |-> "add_prefix", directory |-> d, is_dir |-> i, dry_run |-> dry] :
        d \in SUBSET FileNames, i \in BOOLEAN, dry \in BOOLEAN}

UnitInit ==
    /\ script \in Scripts
    /\ dry_run = FALSE
    /\ resume_from = None
    /\ api_key = ""
    /\ pdf_api_url = ""
    /\ static_file_url = ""
    /\ invitees = <<>>
    /\ summary = [total |-> 0, processed |-> 0, sent |-> 0,
                  skipped |-> 0, failed |-> 0]
    /\ resume_ready = TRUE
    /\ cur = 0
    /\ pc = "unit"
    /\ exit_code = <<>>
    /\ printed = FALSE
    /\ events = <<>>
    /\ diagnostics = <<>>
    /\ unit_pc = "input"
    /\ \/ \E cell \in CodeCells :
            unit_in = [fn |-> "country_code", cell |-> cell]
       \/ /\ script = "docs"
          /\ \E o \in Overrides, d \in NameTexts :
                unit_in = [fn |-> "pdf_file_name", pdf_override |-> o,
                           display_name |-> d]
       \/ unit_in \in EnvInputs
       \/ unit_in \in HttpInputs
       \/ unit_in \in PayloadInputs /\ has_options(script, unit_in)
       \/ unit_in \in PickInputs(script)
       \/ unit_in \in NameInputs
       \/ unit_in \in FileInputs
       \/ script = "docs" /\ unit_in \in ResolveInputs
       \/ script = "docs" /\ unit_in \in GenerationInputs
       \/ script = "v3" /\ unit_in \in DocumentInputs
       \/ unit_in \in StartInputs(script)
       \/ script = "docs" /\ unit_in \in PrefixInputs
    /\ unit_out = [fn |-> "none"]

main_vars == <<config, invitees, summary, resume_ready, cur, pc, exit_code,
               printed, events, diagnostics>>

\* read_invitees builds the Invitee of a row: its stored country code
ReadCountryCode ==
    /\ unit_pc = "input"
    /\ unit_in.fn = "country_code"
    /\ unit_out' = [stored |-> read_country_code(script, unit_in.cell)]
    /\ unit_pc' = "stored"
    /\ UNCHANGED <<unit_in, main_vars>>

\* the client builds the payload's countryCode from the stored code
FormatCountryCode ==
    /\ unit_pc = "stored"
    /\ unit_out' = [stored |-> unit_out.stored,
                    payload |-> format_country_code(unit_out.stored)]
    /\ unit_pc' = "payload"
    /\ UNCHANGED <<unit_in, main_vars>>

PdfFileName ==
    /\ unit_pc = "input"
    /\ unit_in.fn = "pdf_file_name"
    /\ unit_out' = pdf_file_name(unit_in.pdf_override, unit_in.display_name)
    /\ unit_pc' = "done"
    /\ UNCHANGED <<unit_in, main_vars>>

LoadEnvFile ==
    /\ unit_pc = "input"
    /\ unit_in.fn = "load_env_file"
    /\ unit_out' = load_env_file(unit_in.readable, unit_in.lines, unit_in.env)
    /\ unit_pc' = "done"
    /\ UNCHANGED <<unit_in, main_vars>>

GeneratePdfViaApi ==
    /\ unit_pc = "input"
    /\ unit_in.fn = "generate_pdf_via_api"
    /\ unit_out' = generate_pdf_via_api(unit_in.response)
    /\ unit_pc' = "done"
    /\ UNCHANGED <<unit_in, main_vars>>

SendRequest ==
    /\ unit_pc = "input"
    /\ unit_in.fn = "send_request"
    /\ unit_out' = send_request(unit_in.response)
    /\ unit_pc' = "done"
    /\ UNCHANGED <<unit_in, main_vars>>

SendPayload ==
    /\ unit_pc = "input"
    /\ unit_in.fn = "send_payload"
    /\ unit_out' = send_payload(script, unit_in)
    /\ unit_pc' = "done"
    /\ UNCHANGED <<unit_in, main_vars>>

\* one field of one row, as read_invitees resolves it
PickFirst ==
    /\ unit_pc = "input"
    /\ unit_in.fn = "pick_first"
    /\ unit_out' = [value |-> pick_first(record_of(unit_in.row),
                                         FIELD_FALLBACKS(script)[unit_in.field])]
    /\ unit_pc' = "done"
    /\ UNCHANGED <<unit_in, main_vars>>

DisplayName ==
    /\ unit_pc = "input"
    /\ unit_in.fn = "display_name"
    /\ unit_out' = [display_name |-> display_name(script, record_of(unit_in.row))]
    /\ unit_pc' = "done"
    /\ UNCHANGED <<unit_in, main_vars>>

ReadInviteesFile ==
    /\ unit_pc = "input"
    /\ unit_in.fn = "read_invitees"
    /\ unit_out' = load_invitees(script, unit_in.file)
    /\ unit_pc' = "done"
    /\ UNCHANGED <<unit_in, main_vars>>

ResolveRequest ==
    /\ unit_pc = "input"
    /\ unit_in.fn = "resolve_request"
    /\ unit_out' = resolve_request(unit_in)
    /\ unit_pc' = "done"
    /\ UNCHANGED <<unit_in, main_vars>>

GenerationPayload ==
    /\ unit_pc = "input"
    /\ unit_in.fn = "generation_payload"
    /\ unit_out' = generation_payload(call_arguments(unit_in.kwargs))
    /\ unit_pc' = "done"
    /\ UNCHANGED <<unit_in, main_vars>>

ResolveDocument ==
    /\ unit_pc = "input"
    /\ unit_in.fn = "resolve_document"
    /\ unit_out' = resolve_document(unit_in.file_url, unit_in.file_name,
                                    unit_in.response)
    /\ unit_pc' = "done"
    /\ UNCHANGED <<unit_in, main_vars>>

StartUp ==
    /\ unit_pc = "input"
    /\ unit_in.fn = "start_up"
    /\ unit_out' = start_up(script, unit_in.argv, unit_in.environ,
                            unit_in.readable, unit_in.lines)
    /\ unit_pc' = "done"
    /\ UNCHANGED <<unit_in, main_vars>>

\* add_devanupriya_prefix.py is started on the directory
PrefixMain ==
    /\ unit_pc = "input"
    /\ unit_in.fn = "add_prefix"
    /\ unit_out' = prefix_main(unit_in.directory, unit_in.is_dir, unit_in.dry_run,
                               <<>>, 1)
    /\ unit_pc' = IF unit_out'.exit_code = <<>> THEN "renaming" ELSE "returned"
    /\ UNCHANGED <<unit_in, main_vars>>

PrefixStep ==
    /\ unit_pc = "renaming"
    /\ unit_out.pdfs # <<>>
    /\ unit_out' = prefix_step(unit_out)
    /\ UNCHANGED <<unit_pc, unit_in, main_vars>>

\* return 0 after the loop
PrefixReturn ==
    /\ unit_pc = "renaming"
    /\ unit_out.pdfs = <<>>
    /\ unit_out' = [unit_out EXCEPT !.exit_code = <<0>>]
    /\ unit_pc' = "returned"
    /\ UNCHANGED <<unit_in, main_vars>>

\* the script is started a second time on what the first run left
PrefixMainAgain ==
    /\ unit_pc = "returned"
    /\ unit_out.run = 1
    /\ unit_out' = prefix_main(unit_out.directory, unit_in.is_dir, unit_in.dry_run,
                               unit_out.log, 2)
    /\ unit_pc' = IF unit_out'.exit_code = <<>> THEN "renaming" ELSE "returned"
    /\ UNCHANGED <<unit_in, main_vars>>

UnitNext ==
    \/ ReadCountryCode
    \/ FormatCountryCode
    \/ PdfFileName
    \/ LoadEnvFile
    \/ GeneratePdfViaApi
    \/ SendRequest
    \/ SendPayload
    \/ PickFirst
    \/ DisplayName
    \/ ReadInviteesFile
    \/ ResolveRequest
    \/ GenerationPayload
    \/ ResolveDocument
    \/ StartUp
    \/ PrefixMain
    \/ PrefixStep
    \/ PrefixReturn
    \/ PrefixMainAgain

UnitSpec == UnitInit /\ [][UnitNext]_vars

UnitTypeOK ==
    /\ pc = "unit"
    /\ unit_pc \in {"input", "stored", "payload", "done", "renaming", "returned"}
    /\ unit_in.fn # "main"

----------------------------------------------------------------------------
(* C17: a country-code cell with a single leading '+' and the same cell    *)
(* without it are stored as the same code ("+91" and "91" both as "91"),   *)
(* and an absent or blank cell is stored as the default "91".              *)
C17_PlusInsensitive ==
    (unit_pc \in {"stored", "payload"} /\ unit_in.fn = "country_code") =>
        LET cell == unit_in.cell
            single_plus == /\ Len(cell) >= 1
                           /\ cell[1] = "+"
                           /\ (Len(cell) = 1 \/ cell[2] # "+")
            blank == \A k \in 1..Len(cell) : cell[k] = " "
        IN /\ single_plus =>
                unit_out.stored = read_country_code(script, Tail(cell))
           /\ blank => unit_out.stored = <<"9", "1">>
           /\ cell \in {<<"+", "9", "1">>, <<"9", "1">>} =>
                unit_out.stored = <<"9", "1">>

(* C18: the country code stored in the recipient record never starts with  *)
(* '+', and normalising the stored code again gives the stored code.       *)
C18_StoredCanonical ==
    (unit_pc \in {"stored", "payload"} /\ unit_in.fn = "country_code") =>
        /\ unit_out.stored = <<>> \/ unit_out.stored[1] # "+"
        /\ normalise_country_code(unit_out.stored) = unit_out.stored

(* C19: the payload's countryCode is one '+' followed by the stored code,   *)
(* it starts with exactly one '+', and formatting it again changes nothing. *)
C19_PayloadOnePlus ==
    (unit_pc = "payload" /\ unit_in.fn = "country_code") =>
        /\ unit_out.payload = <<"+">> \o unit_out.stored
        /\ unit_out.payload[1] = "+"
        /\ Len(unit_out.payload) = 1 \/ unit_out.payload[2] # "+"
        /\ format_country_code(unit_out.payload) = unit_out.payload

(* C20: the derived file name is the override if set, else the display     *)
(* name, with ".pdf" appended exactly when the name does not end in ".pdf" *)
(* in any mix of cases; deriving from the result changes nothing; the      *)
(* derivation raises exactly when override and display name are both empty *)
C20_PdfFileName ==
    (unit_pc = "done" /\ unit_in.fn = "pdf_file_name") =>
        LET o == unit_in.pdf_override
            d == unit_in.display_name
            base == IF o # {} THEN CHOOSE t \in o : TRUE ELSE d
            n == Len(base)
            has_suffix == /\ n >= 4
                          /\ base[n - 3] = "."
                          /\ base[n - 2] \in {"p", "P"}
                          /\ base[n - 1] \in {"d", "D"}
                          /\ base[n] \in {"f", "F"}
        IN /\ unit_out.raised <=> (o = {} /\ d = <<>>)
           /\ ~unit_out.raised =>
                /\ unit_out.name =
                        IF has_suffix THEN base
                        ELSE base \o <<".", "p", "d", "f">>
                /\ pdf_file_name({unit_out.name}, <<>>) =
                        [raised |-> FALSE, name |-> unit_out.name]
           /\ (o = {} /\ d = 
                    <<"S", "h", "r", "i", " ", "R", "a", "m", "e", "s", "h", " ", "M", " ", "S", "h", "a", "h">>) =>
                unit_out.name = 
                    <<"S", "h", "r", "i", " ", "R", "a", "m", "e", "s", "h", " ", "M", " ", "S", "h", "a", "h", ".", "p", "d", "f">>

C20_Witness ==
    /\ unit_pc = "done"
    /\ unit_in.pdf_override = {}
    /\ unit_in.display_name = 
                    <<"S", "h", "r", "i", " ", "R", "a", "m", "e", "s", "h", " ", "M", " ", "S", "h", "a", "h">>
    /\ ~unit_out.raised
    /\ unit_out.name = 
                    <<"S", "h", "r", "i", " ", "R", "a", "m", "e", "s", "h", " ", "M", " ", "S", "h", "a", "h", ".", "p", "d", "f">>

----------------------------------------------------------------------------
\* the name a line assigns, as the claim reads a KEY=VALUE line
C21_KeyOf(raw_line) ==
    LET line == strip(raw_line)
    IN strip(SubSeq(line, 1, find(line, "=") - 1))

\* the value a line assigns: trimmed, one pair of matching quotes removed
C21_ValueOf(raw_line) ==
    LET line == strip(raw_line)
        v == strip(SubSeq(line, find(line, "=") + 1, Len(line)))
    IN IF /\ Len(v) >= 2
          /\ v[1] = v[Len(v)]
          /\ v[1] \in {"\"", "'"}
       THEN SubSeq(v, 2, Len(v) - 1)
       ELSE v

\* blank lines, lines starting with '#', lines without '='
C21_Inert(raw_line) ==
    LET line == strip(raw_line)
    IN \/ line = <<>>
       \/ line[1] = "#"
       \/ \A k \in 1..Len(line) : line[k] # "="

(* C21: loading the environment file leaves every variable that was set   *)
(* as it was; a name that was not set gets the value of its first          *)
(* KEY=VALUE line (one pair of matching surrounding quotes removed);       *)
(* blank lines, '#' lines and lines without '=' change nothing.            *)
C21_EnvFileKeepsEnvironment ==
    (unit_pc = "done" /\ unit_in.fn = "load_env_file") =>
        LET env0 == unit_in.env
            env1 == unit_out.env
            lines == unit_in.lines
            LinesOf(k) == {i \in 1..Len(lines) :
                              ~C21_Inert(lines[i]) /\ C21_KeyOf(lines[i]) = k}
            First(S) == CHOOSE i \in S : \A j \in S : i <= j
        IN /\ \A k \in DOMAIN env0 : k \in DOMAIN env1 /\ env1[k] = env0[k]
           /\ \A k \in EnvKeys \ DOMAIN env0 :
                IF LinesOf(k) = {} THEN k \notin DOMAIN env1
                ELSE /\ k \in DOMAIN env1
                     /\ env1[k] = C21_ValueOf(lines[First(LinesOf(k))])
           /\ load_env_file(unit_in.readable,
                            SelectSeq(lines, LAMBDA l : ~C21_Inert(l)),
                            env0).env = env1

----------------------------------------------------------------------------
(* C22: generate_pdf_via_api returns a result with url and path exactly    *)
(* when the response has status 200 or 201, its body is well-formed JSON   *)
(* and holds both 'url' and 'path'; in every other case it raises and      *)
(* returns nothing.                                                        *)
C22_GenerateReturnsOnlyOnSuccess ==
    (unit_pc = "done" /\ unit_in.fn = "generate_pdf_via_api") =>
        LET r == unit_in.response
            good == /\ r.transport = "ok"
                    /\ r.status \in {200, 201}
                    /\ r.body.decodable
                    /\ r.body.json
                    /\ r.body.type = "object"
                    /\ {"url", "path"} \subseteq r.body.keys
        IN /\ ~unit_out.raised <=> good
           /\ ~unit_out.raised => unit_out.result = {"url", "path"}
           /\ unit_out.raised => unit_out.result = {} /\ unit_out.error # ""

C22_Witness ==
    /\ unit_pc = "done"
    /\ unit_in.fn = "generate_pdf_via_api"
    /\ unit_in.response.status = 201
    /\ unit_in.response.body.keys = {"url", "path", "result"}
    /\ ~unit_out.raised
    /\ unit_out.result = {"url", "path"}

(* C23: the provider send call raises an error carrying status and body    *)
(* on an HTTP error status; on a response it returns the decoded JSON,     *)
(* with or without a success indicator, and {status, body} when the body  *)
(* is not JSON; it never raises on a response.                             *)
C23_SendReturnsOnResponse ==
    (unit_pc = "done" /\ unit_in.fn = "send_request") =>
        LET r == unit_in.response
        IN /\ r.transport = "http_error" =>
                /\ unit_out.raised
                /\ unit_out.carries = {"status", "body"}
           /\ r.transport = "ok" =>
                /\ ~unit_out.raised
                /\ r.body.json => unit_out.result = r.body.keys
                /\ ~r.body.json => unit_out.result = {"status", "body"}

----------------------------------------------------------------------------
(* C24: every template send has exactly one header source: the static      *)
(* header URL when one is configured, the recipient's document otherwise.  *)
C24_OneHeaderSource ==
    (unit_pc = "done" /\ unit_in.fn = "send_payload"
        /\ unit_out.type = "Template") =>
        /\ Len(unit_out.headerValues) = 1
        /\ unit_in.header_url # "" => unit_out.headerValues = <<unit_in.header_url>>
        /\ unit_in.header_url = "" => unit_out.headerValues = <<"doc_url">>

(* C24 as the code has it: a template send never has more than one header  *)
(* source.  send_whatsapp_docs.py always uses the recipient's document;     *)
(* send_whatsapp_docs_v3.py uses the static header URL when one is         *)
(* configured and sends no header otherwise, never the document;           *)
(* send_whatsapp_invites.py always uses its header image.                  *)
C24_HeaderSourcePerScript ==
    (unit_pc = "done" /\ unit_in.fn = "send_payload"
        /\ unit_out.type = "Template") =>
        /\ Len(unit_out.headerValues) <= 1
        /\ script = "docs" => unit_out.headerValues = <<"doc_url">>
        /\ script = "invites" => unit_out.headerValues = <<unit_in.header_url>>
        /\ script = "v3" =>
            /\ unit_in.header_url # "" =>
                    unit_out.headerValues = <<unit_in.header_url>>
            /\ unit_in.header_url = "" => unit_out.headerValues = <<>>
            /\ unit_out.fileName = <<>>

C24_Witness ==
    /\ unit_pc = "done"
    /\ unit_in.fn = "send_payload"
    /\ script = "v3"
    /\ unit_out.type = "Template"
    /\ unit_in.header_url = ""
    /\ unit_out.headerValues = <<>>

(* C27: in a template send the body values and the button values of the    *)
(* payload are the values configured for the run, in the configured order. *)
C27_ConfiguredTemplateValues ==
    (unit_pc = "done" /\ unit_in.fn = "send_payload"
        /\ unit_out.type = "Template") =>
        /\ unit_in.body_values # <<>> =>
                unit_out.bodyValues = unit_in.body_values
        /\ unit_in.button_values # <<>> =>
                unit_out.buttonValues = unit_in.button_values

----------------------------------------------------------------------------
(* C29: the resolved value of a field is the trimmed value of the first    *)
(* header spelling of the field's priority list whose trimmed value is     *)
(* non-empty, and empty when there is none; a blank column of higher       *)
(* priority never masks a populated one of lower priority.                 *)
C29_FirstPopulatedSpelling ==
    (unit_pc = "done" /\ unit_in.fn = "pick_first") =>
        LET keys == FIELD_FALLBACKS(script)[unit_in.field]
            row == unit_in.row
            trimmed(h) == IF row[h] = <<"None">> THEN <<>> ELSE strip(row[h])
            populated == {k \in 1..Len(keys) :
                            keys[k] \in DOMAIN row /\ trimmed(keys[k]) # <<>>}
            first == CHOOSE k \in populated : \A j \in populated : k <= j
        IN IF populated = {} THEN unit_out.value = <<>>
           ELSE unit_out.value = trimmed(keys[first])

C29_Witness ==
    /\ unit_pc = "done"
    /\ unit_in.fn = "pick_first"
    /\ unit_in.field = "phone"
    /\ DOMAIN unit_in.row = {"phone", "mobile"}
    /\ unit_in.row["phone"] = <<" ">>
    /\ unit_in.row["mobile"] = <<" ", "y", " ">>
    /\ unit_out.value = <<"y">>

----------------------------------------------------------------------------
(* C28: a row without a direct display name but with a first name, a last  *)
(* name or an honorific gets the display name "Shri", first name with the  *)
(* honorific appended, last name, empty parts dropped and the parts joined *)
(* by single spaces; when all of them are empty the display name is empty. *)
C28_SynthesizedDisplayName ==
    (unit_pc = "done" /\ unit_in.fn = "display_name") =>
        LET row == unit_in.row
            text(h) == IF row[h] = <<"None">> THEN <<>> ELSE strip(row[h])
            fg == text("first_name") \o text("gender")
            last == text("last_name")
        IN /\ (text("name") = <<>> /\ (fg # <<>> \/ last # <<>>)) =>
                unit_out.display_name =
                    <<"S", "h", "r", "i">>
                    \o (IF fg # <<>> THEN <<" ">> \o fg ELSE <<>>)
                    \o (IF last # <<>> THEN <<" ">> \o last ELSE <<>>)
           /\ (text("name") = <<>> /\ fg = <<>> /\ last = <<>>) =>
                unit_out.display_name = <<>>
           /\ text("name") # <<>> => unit_out.display_name = text("name")

----------------------------------------------------------------------------
\* C25, the part on records: one record per data row, in source order,
\* with empty fields for missing or blank cells
C25_RecordPerRow ==
    LET rows == unit_in.file.rows
        Data == {i \in 1..Len(rows) : rows[i] # <<>>}
        text(c) == IF c = <<"None">> THEN <<>> ELSE c
    IN /\ Len(unit_out.invitees) = Cardinality(Data)
       /\ \A i \in Data :
            LET n == Cardinality({j \in Data : j <= i})
            IN /\ unit_out.invitees[n].line_no = n + 1
               /\ unit_out.invitees[n].phone = text(rows[i]["phone"])
               /\ unit_out.invitees[n].display_name = text(rows[i]["name"])

----------------------------------------------------------------------------
\* the kinds of the lines written about the recipient at position i
C30_Lines(i) ==
    {diagnostics[k].kind : k \in {j \in 1..Len(diagnostics) : diagnostics[j].about = i}}

(* C30: every recipient counted skipped or failed has a diagnostic line,   *)
(* and the line of a field-skip names each missing field.                  *)
C30_DiagnosticForEverySkip ==
    \A i \in 1..Len(invitees) :
        /\ (Has("skipped", i) \/ Has("failed", i)) => C30_Lines(i) # {}
        /\ (Has("skipped", i) /\ invitees[i].display_name = "") =>
                "missing_name" \in C30_Lines(i)
        /\ (Has("skipped", i) /\ invitees[i].phone = "") =>
                "missing_phone" \in C30_Lines(i)

(* C30 as the code has it: a recipient counted failed has one line about   *)
(* the failed generation or send; a field-skip has one line that names the *)
(* first missing field only, the name before the phone; a recipient        *)
(* skipped by the resume gate has no line.                                 *)
C30_DiagnosticPerOutcome ==
    \A i \in 1..Len(invitees) :
        /\ Has("failed", i) =>
                C30_Lines(i) = IF SendAttempted(i) THEN {"send_failed"}
                                                    ELSE {"generate_failed"}
        /\ (Has("skipped", i) /\ invitees[i].display_name = "") =>
                C30_Lines(i) = {"missing_name"}
        /\ (Has("skipped", i) /\ invitees[i].display_name # ""
                /\ invitees[i].phone = "") =>
                C30_Lines(i) = {"missing_phone"}
        /\ (Has("skipped", i) /\ invitees[i].display_name # ""
                /\ invitees[i].phone # "") =>
                C30_Lines(i) = {}
        /\ Cardinality({k \in 1..Len(diagnostics) : diagnostics[k].about = i}) <= 1

C30_Witness ==
    /\ pc = "ret_summary"
    /\ Len(invitees) = 3
    /\ invitees[1].display_name = "" /\ invitees[1].phone = ""
    /\ Has("skipped", 1) /\ C30_Lines(1) = {"missing_name"}
    /\ invitees[2].display_name # "" /\ invitees[2].phone # ""
    /\ Has("skipped", 2) /\ C30_Lines(2) = {}
    /\ Has("failed", 3) /\ C30_Lines(3) # {}

----------------------------------------------------------------------------
(* C26: for a recipient with a document override, the override and not the *)
(* display name is what the dispatch loop resolves the document with.      *)
C26_OverrideResolvesDocument ==
    (unit_pc = "done" /\ unit_in.fn = "resolve_request"
        /\ unit_in.pdf_override # {}) =>
        unit_out.text \in unit_in.pdf_override

(* C33: when a resume anchor is configured and no recipient with a name and *)
(* a phone has a phone equal to it (the anchor row lacking a name, and the  *)
(* empty-string anchor, included), a run that enters the loop makes no      *)
(* generation or send call, keeps sent and failed at 0, counts every        *)
(* recipient skipped and exits with code 0.                                 *)
C33_AnchorNeverMatched ==
    (/\ pc \in {"loop", "resolve", "send", "ret_summary", "crashed"}
     /\ resume_from # None
     /\ \A i \in Positions :
           ~(/\ invitees[i].display_name # ""
             /\ invitees[i].phone # ""
             /\ invitees[i].phone = resume_from)) =>
        /\ summary.sent = 0 /\ summary.failed = 0
        /\ \A i \in Positions :
              /\ ~GenAttempted(i) /\ ~SendAttempted(i)
              /\ ~Has("sent", i) /\ ~Has("failed", i)
              /\ Visited(i) => Has("skipped", i)
        /\ pc \notin {"resolve", "send", "crashed"}
        /\ pc = "ret_summary" =>
              /\ summary.skipped = summary.total
              /\ summary.total = Len(invitees)
              /\ \A i \in Positions : Count("skipped", i) = 1
              /\ exit_code = <<0>>

\* a finished live run of three rows whose anchor row has no name, followed
\* by a recipient with name and phone
C33_Witness ==
    /\ pc = "ret_summary" /\ ~dry_run
    /\ resume_from = "9001"
    /\ Len(invitees) = 3
    /\ invitees[1].phone = "9001" /\ invitees[1].display_name = ""
    /\ invitees[2].phone = "9002" /\ invitees[2].display_name # ""
    /\ summary.skipped = 3 /\ exit_code = <<0>>

(* C34: a generation call is made at most once per recipient and only for a *)
(* recipient that passed the name gate, the phone gate and the resume gate; *)
(* a send call is made only after the document of that recipient was        *)
(* resolved; a skipped recipient causes no remote call at all.              *)
C34_CallsOnlyAfterGates ==
    \A i \in Positions :
        /\ Count("gen_ok", i) + Count("gen_raise", i) <= 1
        /\ GenAttempted(i) =>
              /\ invitees[i].display_name # "" /\ invitees[i].phone # ""
              /\ \/ resume_from = None
                 \/ \E j \in 1..i : /\ invitees[j].display_name # ""
                                    /\ invitees[j].phone # ""
                                    /\ invitees[j].phone = resume_from
              /\ Has("pass", i)
              /\ ~Has("no_name", i) /\ ~Has("no_phone", i) /\ ~Has("before_anchor", i)
        /\ SendAttempted(i) =>
              /\ Has("gen_ok", i) \/ Has("static", i)
              /\ ~Has("gen_raise", i)
              /\ \A k \in 1..Len(events) :
                    events[k] \in {Ev("send_ret", i), Ev("send_raise", i)} =>
                        \E m \in 1..(k - 1) : events[m] \in {Ev("gen_ok", i), Ev("static", i)}
        /\ Has("skipped", i) =>
              /\ ~Has("gen_ok", i) /\ ~Has("gen_raise", i)
              /\ ~Has("send_ret", i) /\ ~Has("send_raise", i)

\* a finished run in which one recipient was skipped by the resume gate, one
\* was sent after its document was generated and one failed at generation
C34_Witness ==
    /\ pc = "ret_summary"
    /\ \E i, j, k \in Positions :
          /\ Has("before_anchor", i) /\ Has("skipped", i)
          /\ Has("gen_ok", j) /\ Has("send_ret", j) /\ Has("sent", j)
          /\ Has("gen_raise", k) /\ Has("failed", k)

\* the stderr lines that show the provider's response to the send of recipient i
C35_ApiResponses(i) == {k \in 1..Len(diagnostics) : diagnostics[k] = Diag("api_response", i)}

----------------------------------------------------------------------------
\* the outcome recipient i must have at the end of the loop, from its own
\* record, the resume flag at its turn, the run mode and the answers to its
\* own calls
C31_OwnOutcome(i) ==
    IF invitees[i].display_name = "" \/ invitees[i].phone = "" THEN "skipped"
    ELSE IF ~(\/ resume_from = None
              \/ \E j \in 1..i : /\ invitees[j].display_name # ""
                                 /\ invitees[j].phone # ""
                                 /\ invitees[j].phone = resume_from) THEN "skipped"
    ELSE IF Has("gen_raise", i) \/ Has("send_raise", i) \/ Has("result_raise", i)
         THEN "failed"
    ELSE "sent"

(* C31: the outcome of a recipient depends only on its own record, the      *)
(* resume flag at its turn, the run configuration and the answers to its    *)
(* own calls: whatever the records of, and the answers for, the other       *)
(* recipients are, at the end of the loop each recipient none of whose own  *)
(* calls raised has the outcome its own inputs give it.                     *)
C31_OutcomeOwnInputsOnly ==
    LoopOver =>
        \A i \in Positions :
            C31_OwnOutcome(i) # "failed" =>
                /\ Has(C31_OwnOutcome(i), i)
                /\ Count("sent", i) + Count("skipped", i) + Count("failed", i) = 1

----------------------------------------------------------------------------
(* C32: the generation request carries x_position, y_position, font_size    *)
(* and text_color exactly when they are provided (not None), with the value *)
(* provided, next to the text; the request the dispatch loop makes consists *)
(* of the text field alone.                                                 *)
C32_OptionalFieldsWhenProvided ==
    (unit_pc = "done" /\ unit_in.fn = "generation_payload") =>
        /\ "text" \in DOMAIN unit_out /\ unit_out.text = unit_in.kwargs.text
        /\ DOMAIN unit_out \subseteq
                {"text", "x_position", "y_position", "font_size", "text_color"}
        /\ \A f \in {"x_position", "y_position", "font_size", "text_color"} :
              /\ f \in DOMAIN unit_out <=>
                    (f \in DOMAIN unit_in.kwargs /\ unit_in.kwargs[f] # {})
              /\ f \in DOMAIN unit_out => unit_out[f] \in unit_in.kwargs[f]
        /\ unit_in.caller = "main" =>
              /\ DOMAIN unit_out = {"text"}
              /\ unit_out.text = unit_in.display_name

\* a call with x_position 0 and an empty text_color, both carried, and
\* y_position passed as None, left out
C32_Witness ==
    /\ unit_pc = "done" /\ unit_in.fn = "generation_payload"
    /\ unit_in.caller = "direct"
    /\ DOMAIN unit_in.kwargs = {"text", "x_position", "y_position", "text_color"}
    /\ unit_in.kwargs.x_position = {0}
    /\ unit_in.kwargs.y_position = {}
    /\ unit_in.kwargs.text_color = {""}
    /\ DOMAIN unit_out = {"text", "x_position", "text_color"}

----------------------------------------------------------------------------
\* the text t without the spaces around it
C36_Trimmed(t) ==
    LET inked == {k \in 1..Len(t) : t[k] # " "}
    IN  IF inked = {} THEN <<>>
        ELSE SubSeq(t, CHOOSE k \in inked : \A j \in inked : k <= j,
                       CHOOSE k \in inked : \A j \in inked : k >= j)

\* the segments of the path p after which only slashes and "." segments
\* follow
C36_LastSegments(p) ==
    {n \in {SubSeq(p, k, m) : k \in 1..Len(p), m \in 1..Len(p)} :
        /\ n # <<>> /\ n # <<".">>
        /\ \A j \in 1..Len(n) : n[j] # "/"
        /\ \E k \in 1..Len(p) :
              /\ k + Len(n) - 1 <= Len(p)
              /\ SubSeq(p, k, k + Len(n) - 1) = n
              /\ k = 1 \/ p[k - 1] = "/"
              /\ SubSeq(p, k + Len(n), Len(p)) \in {<<>>, <<"/">>, <<"/", "/">>, <<"/", ".">>, <<"/", ".", "/">>}}

(* C36: in send_whatsapp_docs_v3.py, with a static file URL configured, the *)
(* document step of a recipient makes no generation call and does not count *)
(* the recipient failed, so that only the send can; the file name is the    *)
(* configured static name, else the last segment of the path of the URL,    *)
(* else "invite.pdf".                                                       *)
C36_StaticFile ==
    (/\ unit_pc = "done" /\ unit_in.fn = "resolve_document"
     /\ \E k \in 1..Len(unit_in.file_url) : unit_in.file_url[k] # " ") =>
        /\ unit_out.calls = <<>>
        /\ ~unit_out.failed
        /\ unit_out.media_url = C36_Trimmed(unit_in.file_url)
        /\ unit_out.file_name =
              IF C36_Trimmed(unit_in.file_name) # <<>>
              THEN C36_Trimmed(unit_in.file_name)
              ELSE IF C36_LastSegments(unit_in.parts.path) # {}
              THEN CHOOSE n \in C36_LastSegments(unit_in.parts.path) : TRUE
              ELSE <<"i", "n", "v", "i", "t", "e", ".", "p", "d", "f">>
        /\ Cardinality(C36_LastSegments(unit_in.parts.path)) <= 1

\* a static URL with a query and a path that ends in a slash, no static
\* name: the file name is the segment before the slash
C36_Witness ==
    /\ unit_pc = "done" /\ unit_in.fn = "resolve_document"
    /\ unit_in.file_url = <<"h", "t", "t", "p", "s", ":", "/", "/", "h", "/", "a", "/", "?", "q", "/", "r">>
    /\ unit_in.file_name = <<" ">>
    /\ unit_out.calls = <<>>
    /\ unit_out.file_name = <<"a">>

----------------------------------------------------------------------------
----------------------------------------------------------------------------
\* the name starts with "Devanupriya "
C38_Prefixed(name) ==
    /\ Len(name) >= 12
    /\ SubSeq(name, 1, 12) = <<"D", "e", "v", "a", "n", "u", "p", "r", "i", "y", "a", " ">>

(* C38: the prefix-rename script is idempotent and non-destructive: a file  *)
(* whose name already starts with the prefix is never renamed, a rename is  *)
(* never performed onto a name that exists, a dry run leaves the directory  *)
(* unchanged, the number of files is preserved, and a second run after a    *)
(* full first run renames nothing.                                          *)
C38_IdempotentRename ==
    (unit_in.fn = "add_prefix" /\ unit_pc \in {"renaming", "returned"}) =>
        /\ \A k \in 1..Len(unit_out.log) :
              unit_out.log[k].kind = "renamed" =>
                  /\ ~C38_Prefixed(unit_out.log[k].name)
                  /\ unit_out.log[k].name \in unit_out.log[k].before
                  /\ unit_out.log[k].target \notin unit_out.log[k].before
                  /\ unit_out.log[k].run = 1
                  /\ ~unit_in.dry_run
        /\ \A name \in unit_in.directory :
              C38_Prefixed(name) => name \in unit_out.directory
        /\ unit_in.dry_run => unit_out.directory = unit_in.directory
        /\ Cardinality(unit_out.directory) = Cardinality(unit_in.directory)
        /\ (unit_pc = "returned" /\ unit_out.run = 2) =>
              \E k \in 0..Len(unit_out.log) :
                  /\ \A j \in 1..k : unit_out.log[j].run = 1
                  /\ \A j \in (k + 1)..Len(unit_out.log) :
                        /\ unit_out.log[j].run = 2
                        /\ unit_out.log[j].before = unit_out.directory
                        /\ unit_out.log[j].kind # "renamed"
                        /\ ~unit_in.dry_run =>
                              unit_out.log[j].kind \in {"skip", "error"}

\* two runs over a.pdf, b.pdf and "Devanupriya a.pdf": the first renames
\* b.pdf and refuses a.pdf, the second renames nothing
C38_Witness ==
    /\ unit_in.fn = "add_prefix" /\ unit_pc = "returned" /\ unit_out.run = 2
    /\ ~unit_in.dry_run
    /\ unit_in.directory = {<<"a", ".", "p", "d", "f">>, <<"b", ".", "p", "d", "f">>,
                            <<"D", "e", "v", "a", "n", "u", "p", "r", "i", "y", "a", " ", "a", ".", "p", "d", "f">>}
    /\ unit_out.directory = {<<"a", ".", "p", "d", "f">>, <<"D", "e", "v", "a", "n", "u", "p", "r", "i", "y", "a", " ", "b", ".", "p", "d", "f">>,
                             <<"D", "e", "v", "a", "n", "u", "p", "r", "i", "y", "a", " ", "a", ".", "p", "d", "f">>}
    /\ Len(unit_out.log) = 6
    /\ unit_out.exit_code = <<0>>

====
